---- MODULE Spec2Model ----
(***************************************************************************)
(* Model of the UniFi cable tester integration: the test orchestrator     *)
(* (coordinator.py), the SSH transport and CLI session driver and the     *)
(* cable-diagnostic parser (ssh_client.py).                                *)
(*                                                                         *)
(* A step of the model is what one coroutine does between two suspension  *)
(* points (await) of the asyncio event loop: code between two awaits runs *)
(* atomically, so it is one action.                                        *)
(***************************************************************************)
EXTENDS Integers, Sequences, FiniteSets, TLC

(***************************************************************************)
(* Bounds of the model.                                                    *)
(***************************************************************************)
\* Largest port index a switch table or a transcript may name.
MaxPort == 2
\* Number of test runs started in one behaviour (also the clock's range).
MaxRuns == 3
\* Read timeouts (each writes one more exit) that fit before the deadline of
\* the read loop of one CLI session.
MaxNudges == 2
\* Calls of client.disconnect() in one behaviour.
MaxDisconnects == 2

PortIds == 1..MaxPort
\* The callers of async_request_cable_test: two overlapping calls.
Tasks == {1, 2}

\* Python's Optional: None, or a value x as Some(x).
None == <<>>
Some(x) == <<x>>

(***************************************************************************)
(* const.py                                                                *)
(***************************************************************************)
\* A command line is its text and the port formatted into it (0: none).
CMD_CLI_ENTER == <<"cli", 0>>
CMD_CLI_EXIT == <<"exit", 0>>
CMD_CABLE_DIAG(p) == <<"sh cable-diag int gi{port}", p>>

STATUS_OK == "OK"
STATUS_OPEN == "Open"
STATUS_SHORT == "Short"
STATUS_NOT_TESTED == "Not Tested"
STATUS_FIBER == "Fiber"
STATUS_UNKNOWN == "Unknown"

TEST_RUN_IDLE == "Idle"
TEST_RUN_RUNNING == "Running"
TEST_RUN_COMPLETED == "Completed"
TEST_RUN_FAILED == "Failed"

(***************************************************************************)
(* ssh_client.py: the cable-diagnostic parser (CLI dialect).               *)
(*                                                                         *)
(* A transcript is a sequence of lines; a line is the record of what the  *)
(* parser's tests and regular expressions extract from its text:          *)
(*   skip  - the line is blank, or starts with "-", "=" or "Port", or     *)
(*           contains "--------"                                           *)
(*   gi    - the port of a leading "gi<N> |", 0 when the line has none    *)
(*   fiber - the lower-cased line contains "fiber"                        *)
(*   pair  - the letter of "Pair X | len | status" (upper-cased), "" when *)
(*           the line has no such part                                     *)
(*   len, st - the stripped length and status texts of that part          *)
(***************************************************************************)
\* Lengths are kept in centimetres: float("24.00") is 2400.
NumericLengths == [s \in {"24.00", "3.5"} |-> IF s = "24.00" THEN 2400 ELSE 350]

\* lines 696-701: the length of a pair line, None for a sentinel or a
\* text float() rejects.
ParseDiagLength(length_str) ==
    IF length_str \in {"n/a", "N/A", "na", "NA", "-", ""} THEN None
    ELSE IF length_str \in DOMAIN NumericLengths THEN Some(NumericLengths[length_str])
    ELSE None

\* str.strip().lower() on the status texts of the model.
Lower(s) ==
    CASE s = "Normal" -> "normal"
      [] s = "OK" -> "ok"
      [] s = " ok " -> "ok"
      [] s = "Good" -> "good"
      [] s = "Open" -> "open"
      [] s = "Disconnected" -> "disconnected"
      [] s = "Short" -> "short"
      [] s = "SHORT" -> "short"
      [] s = "NA" -> "na"
      [] s = "Test Failed" -> "test failed"
      [] s = "Not Supported" -> "not supported"
      [] s = "N/A" -> "n/a"
      [] s = "Not Tested" -> "not tested"
      [] s = "Unknown" -> "unknown"
      [] s = "Fiber" -> "fiber"
      [] OTHER -> s

_normalize_cable_status(status) ==
    LET s == Lower(status) IN
    IF s \in {"normal", "ok", "good"} THEN STATUS_OK
    ELSE IF s \in {"open", "disconnect", "disconnected"} THEN STATUS_OPEN
    ELSE IF s \in {"short"} THEN STATUS_SHORT
    ELSE IF s \in {"not supported", "n/a", "na", "-", ""} THEN STATUS_NOT_TESTED
    ELSE STATUS_UNKNOWN

\* The normalizer of the flat cable-test dialect (lines 730-741).
_normalize_status(status) ==
    LET s == Lower(status) IN
    IF s \in {"ok", "normal", "good"} THEN STATUS_OK
    ELSE IF s \in {"open", "disconnect", "disconnected"} THEN STATUS_OPEN
    ELSE IF s \in {"short"} THEN STATUS_SHORT
    ELSE IF s \in {"n/a", "na", "-", ""} THEN STATUS_NOT_TESTED
    ELSE STATUS_UNKNOWN

PairResult(status, length) == [status |-> status, length |-> length]

\* CableTestResult(port=..., last_tested=now): every pair at the default.
\* The port is the key under which the result is stored.
CableTestResult(now) ==
    [pairs |-> [i \in 1..4 |-> PairResult(STATUS_NOT_TESTED, None)],
     last_tested |-> now]

_set_pair_result(result, pair_index, status, length) ==
    IF pair_index \in 1..4
    THEN [result EXCEPT !.pairs[pair_index] = PairResult(status, length)]
    ELSE result

\* Mutation: the pair letters are numbered from the end.
PairIndexReversed(letter) ==
    CASE letter = "A" -> 4 [] letter = "B" -> 3
      [] letter = "C" -> 2 [] letter = "D" -> 1 [] OTHER -> 0

\* Line 691.
PairIndex(letter) ==
    CASE letter = "A" -> 1 [] letter = "B" -> 2
      [] letter = "C" -> 3 [] letter = "D" -> 4 [] OTHER -> 0

FiberResult(now) ==
    [pairs |-> [i \in 1..4 |-> PairResult(STATUS_FIBER, None)],
     last_tested |-> now]

\* The parser's loop state: results (a function on the ports found) and
\* current_port (0 while current_result is None).
ParseState(results, current_port) ==
    [results |-> results, current_port |-> current_port]

\* Python's results[k] = v on a dict.
DictSet(d, k, v) == [x \in (DOMAIN d) \cup {k} |-> IF x = k THEN v ELSE d[x]]

\* One iteration of the loop of _parse_cable_diag_output (lines 643-707).
ParseDiagLine(st, line, now) ==
    IF line.skip THEN st
    ELSE
      LET hdr == line.gi # 0
          afterHdr ==
              IF hdr
              THEN ParseState(
                     DictSet(st.results, line.gi,
                             IF line.fiber THEN FiberResult(now)
                             ELSE CableTestResult(now)),
                     line.gi)
              ELSE st
      IN IF hdr /\ line.fiber THEN afterHdr
         ELSE IF afterHdr.current_port = 0 THEN afterHdr
         ELSE IF line.pair = "" THEN afterHdr
         ELSE LET cp == afterHdr.current_port
                  idx == PairIndex(line.pair)
              IN ParseState(
                   [afterHdr.results EXCEPT ![cp] =
                       _set_pair_result(@, idx,
                                        _normalize_cable_status(line.st),
                                        ParseDiagLength(line.len))],
                   cp)

RECURSIVE ParseDiagFrom(_, _, _)
ParseDiagFrom(st, lines, now) ==
    IF lines = <<>> THEN st
    ELSE ParseDiagFrom(ParseDiagLine(st, Head(lines), now), Tail(lines), now)

\* The empty dict.
EmptyDict == [x \in {} |-> None]

_parse_cable_diag_output(output, now) ==
    ParseDiagFrom(ParseState(EmptyDict, 0), output, now).results


(***************************************************************************)
(* The inputs the environment (the switch, the network) may produce.       *)
(***************************************************************************)
DiagLine(skip, gi, fiber, pair, len, st) ==
    [skip |-> skip, gi |-> gi, fiber |-> fiber, pair |-> pair, len |-> len, st |-> st]

\* "giN | auto | Pair A | 24.00 | Normal" and the table's separator line.
HeaderLine(p) == DiagLine(FALSE, p, FALSE, "A", "24.00", "Normal")
SeparatorLine == DiagLine(TRUE, 0, FALSE, "", "", "")

\* The header lines of the ports of S, in ascending order.
RECURSIVE HeaderLines(_)
HeaderLines(S) ==
    IF S = {} THEN <<>>
    ELSE LET m == CHOOSE x \in S : \A y \in S : x <= y
         IN <<HeaderLine(m)>> \o HeaderLines(S \ {m})

\* The transcripts the orchestrator is given: the separator line, then the
\* blocks of any set of ports (none: the switch printed no result), whatever
\* the batch asked for.
Transcripts == {<<SeparatorLine>> \o HeaderLines(S) : S \in SUBSET PortIds}

\* collected_output when the read loop ends: a transcript, or the empty
\* string when no chunk was read.
NothingCollected == <<>>
CollectedOutputs == Transcripts \cup {NothingCollected}

\* What one read of the loop may return: some lines of a transcript.
Chunks ==
    UNION {{SubSeq(o, i, j) : i \in 1..Len(o), j \in 1..Len(o)} :
             o \in Transcripts} \ {<<>>}

\* The ways the loop of lines 262-281 is left: the break at end of stream
\* (line 271) or its condition turning false at the deadline (line 262).
LoopExits == {"eof", "deadline"}

\* Exceptions of ssh_client.py: the type and the text of str(err), a
\* sequence of text parts (the empty sequence is the empty string).
Err(type, msg) == [type |-> type, msg |-> msg]
ErrAuth == Err("UniFiAuthError", <<"Authentication failed for admin@switch">>)
ErrConnect == Err("UniFiConnectionError", <<"Cannot connect to switch:22">>)
ErrCliFailed == Err("UniFiCommandError", <<"CLI commands failed">>)
ErrCliTimeout == Err("UniFiCommandError", <<"CLI commands timed out after 30s">>)
ErrCmdTimeout == Err("UniFiCommandError", <<"Command 'swctrl port show' timed out after 30s">>)
ErrCmdFailed == Err("UniFiCommandError", <<"Command 'swctrl port show' failed">>)

\* connect() (lines 134-149) raises one of these.
ConnectErrors == {ErrAuth, ErrConnect}

\* What the coordinator raises to its caller.
UpdateFailed(msg) == Err("UpdateFailed", msg)
WrappedFailure(err) == UpdateFailed(<<"Cable test failed: ">> \o err.msg)
NoResultsFailure == UpdateFailed(<<"Cable test returned no results">>)

\* The port argument of a request: a port, or None for all ports.
PortArgs == {Some(p) : p \in PortIds} \cup {None}

\* Parsed "swctrl port show" tables and "info" outputs, kept abstract.
NoStatuses == "no statuses"
StatusTables == {"statuses v1"}
DefaultSwitchInfo == "SwitchInfo()"
SwitchInfos == {DefaultSwitchInfo, "parsed info"}

(***************************************************************************)
(* State.                                                                  *)
(***************************************************************************)
VARIABLES
    phase,              \* "new", "ready" (async_setup returned) or "failed"
    port_count,         \* coordinator.port_count
    switch_info,        \* coordinator.switch_info
    port_statuses,      \* coordinator.port_statuses
    data,               \* coordinator.data: the accumulated result map
    test_failed_ports,  \* coordinator.test_failed_ports
    test_run_status,    \* coordinator.test_run_status
    test_started,       \* coordinator.test_started
    test_completed,     \* coordinator.test_completed
    test_ports_count,   \* coordinator.test_ports_count
    test_error_message, \* coordinator.test_error_message
    published,          \* the run-status record observers saw at the last publish
    lock,               \* coordinator._test_lock: holder flag and FIFO waiters
    conn,               \* client._conn: "open", or "none" (None or is_closed())
    now,                \* the clock read by datetime.now()
    pc,                 \* per caller: where its async_request_cable_test stands
    port,               \* per caller: the port argument of its call
    cmdq,               \* per caller: commands of run_cli_commands not yet written
    nudges,             \* per caller: read timeouts of its read loop so far
    results,            \* per caller: the parsed results of run_cable_test
    sessions,           \* callers whose CLI process (channel) is open
    cliLog,             \* writes to CLI sessions since no session was open
    before,             \* data and failed ports when the run in progress started (history)
    lastRun,            \* how the last finished run, or a failed setup, ended (history)
    publisher,          \* who called async_set_updated_data last (history)
    peer,               \* the coordinator and client of a second switch
    dpc,                \* where a call of client.disconnect() stands
    disconnects,        \* calls of client.disconnect() that returned (history)
    loopEnd,            \* how the read loop of the run in progress ended (history)
    loop,               \* the read loop in progress: its clock and collected_output
    service,            \* where a run_cable_test service call over all switches stands
    refreshed,          \* how the last async_refresh_switch_status went (history)
    loaded,             \* what async_setup_entry has done for the config entry
    parseIn,            \* the text handed to a parser
    parseOut            \* the parser applied to it last, and what it returned

coordVars == <<phase, port_count, switch_info, port_statuses, data,
               test_failed_ports>>
statusVars == <<test_run_status, test_started, test_completed,
                test_ports_count, test_error_message>>
taskVars == <<pc, port, cmdq, nudges, results>>
\* What the steps of this coordinator's setup, tests and refreshes leave alone.
parserVars == <<parseIn, parseOut>>
loopVars == <<loopEnd, loop>>
otherVars == <<peer, dpc, disconnects, parserVars, service, refreshed>>
vars == <<coordVars, statusVars, published, lock, conn, now, taskVars,
          sessions, cliLog, before, lastRun, publisher, otherVars, loopVars,
          loaded>>

\* The run-status record as presentation layers read it.
StatusRecord(status, started, completed, count, error) ==
    [status |-> status, started |-> started, completed |-> completed,
     count |-> count, error |-> error]

NoBefore == [data |-> EmptyDict, failed |-> {}]

NoRun ==
    [kind |-> "none", port |-> None, parsed |-> "none", raised |-> None]

\* History of the read loop of run_cli_commands: how it ended ("eof" or
\* "deadline"), whether collected_output was not empty, and what the call
\* raised.
LoopEnd(how, collected, raised) ==
    [how |-> how, collected |-> collected, raised |-> raised]

NoLoopEnd == LoopEnd("none", FALSE, None)

\* The read loop of lines 259-281: the time since its deadline was set
\* (line 260), in per-read timeouts of 3 s, and collected_output.  Outside
\* the loop: nothing collected (line 231).
Loop(elapsed, buffer) == [elapsed |-> elapsed, buffer |-> buffer]
NoLoop == Loop(0, <<>>)

\* A call of the run_cable_test service that names no device: "running",
\* "returned" or "raised"; the order in which hass.data[DOMAIN].values()
\* yields the coordinators (1 is this one, 2 the one of the second switch);
\* how many of its calls of async_request_cable_test have returned; and the
\* port of the call.
Service(state, order, done, p) ==
    [state |-> state, order |-> order, done |-> done, port |-> p]

NoService == Service("idle", <<>>, 0, None)

\* The orders the config entries may have been set up in.
ServiceOrders == {<<1, 2>>, <<2, 1>>}

\* History of a call of async_refresh_switch_status: whether it returned
\* ("ok") or raised, what get_switch_info did ("fetched": it parsed the
\* output of its command, "defaulted": its command raised UniFiCommandError
\* and it returned SwitchInfo(), "raised": it raised), and switch_info as it
\* was when the call began.
Refreshed(outcome, identity, info) ==
    [outcome |-> outcome, identity |-> identity, info |-> info]

NoRefresh == Refreshed("none", "none", "none")

\* No parser has been handed a text.
NoText == [kind |-> "none", text |-> <<>>]
NoOutput == [fn |-> "none", value |-> <<>>]

\* A second config entry has a client and a coordinator of its own
\* (__init__.py lines 86-87): its test lock, run status, failed ports, the
\* ports of its result map and its connection, after its setup.
PeerInit ==
    [locked |-> FALSE, test_run_status |-> TEST_RUN_IDLE,
     test_failed_ports |-> {}, data |-> {}, conn |-> "open"]

Init ==
    /\ phase = "new"
    /\ port_count \in 0..MaxPort      \* 0, or max(known_ports) of __init__.py:99
    /\ switch_info = DefaultSwitchInfo
    /\ port_statuses = NoStatuses
    /\ data = EmptyDict
    /\ test_failed_ports = {}
    /\ test_run_status = TEST_RUN_IDLE
    /\ test_started = None
    /\ test_completed = None
    /\ test_ports_count = 0
    /\ test_error_message = None
    /\ published = StatusRecord(TEST_RUN_IDLE, None, None, 0, None)
    /\ lock = [locked |-> FALSE, waiters |-> <<>>]
    /\ conn = "none"
    /\ now = 0
    /\ pc = [t \in Tasks |-> "idle"]
    /\ port = [t \in Tasks |-> None]
    /\ cmdq = [t \in Tasks |-> <<>>]
    /\ nudges = [t \in Tasks |-> 0]
    /\ results = [t \in Tasks |-> EmptyDict]
    /\ sessions = {}
    /\ cliLog = <<>>
    /\ before = NoBefore
    /\ lastRun = NoRun
    /\ publisher = "none"
    /\ peer = PeerInit
    /\ dpc = "idle"
    /\ disconnects = 0
    /\ loopEnd = NoLoopEnd
    /\ loop = NoLoop
    /\ service = NoService
    /\ refreshed = NoRefresh
    /\ loaded = {}
    /\ parseIn = NoText
    /\ parseOut = NoOutput


(***************************************************************************)
(* __init__.py: async_setup_entry (lines 84-123) awaiting coordinator.py:  *)
(* async_setup (lines 63-100).  Nothing else runs on the coordinator       *)
(* before it returns, so it is one step.                                   *)
(***************************************************************************)
\* async_setup returned: the coordinator is stored in hass.data, the entry
\* is forwarded to the platforms and the services are registered
\* (__init__.py lines 113-121).
LoadedOnSetup == {"coordinator", "platforms", "services"}

\* Mutation: the coordinator is stored before async_setup is awaited.
LoadedOnSetupFailureStored == loaded \cup {"coordinator"}

\* async_setup raised at the await of __init__.py lines 108-111: none of
\* the statements after it runs.
LoadedOnSetupFailure == loaded

SetupOk ==
    /\ phase = "new"
    /\ phase' = "ready"
    /\ conn' = "open"
    /\ IF port_count <= 0
       THEN port_count' \in 0..MaxPort      \* get_port_count()
       ELSE port_count' = port_count
    /\ switch_info' \in SwitchInfos
    /\ port_statuses' \in {port_statuses} \cup StatusTables  \* startup_lightweight_read
    /\ data' = EmptyDict                    \* async_set_updated_data({})
    /\ published' = StatusRecord(test_run_status, test_started, test_completed,
                                 test_ports_count, test_error_message)
    /\ publisher' = "setup"
    /\ loaded' = LoadedOnSetup
    /\ UNCHANGED <<otherVars, loopVars>>
    /\ UNCHANGED <<test_failed_ports, statusVars, lock, now, taskVars, sessions,
                   cliLog, before, lastRun>>

\* What async_setup raises when connect() raised err (lines 90-97): for
\* UniFiAuthError and for UniFiConnectionError alike a ConfigEntryNotReady,
\* with a text that names the cause.
SetupFailure(err) ==
    Err("ConfigEntryNotReady",
        <<IF err.type = "UniFiAuthError" THEN "Authentication failed: "
          ELSE "Cannot connect to switch: ">> \o err.msg)

\* connect() raised err: async_setup raises, the coordinator is never stored.
SetupFails(err) ==
    /\ phase = "new"
    /\ err \in ConnectErrors
    /\ phase' = "failed"
    /\ lastRun' = [kind |-> "setup", port |-> None, parsed |-> "none",
                   raised |-> Some(SetupFailure(err))]
    /\ UNCHANGED <<port_count, switch_info, port_statuses, data, test_failed_ports,
                   statusVars, published, lock, conn, now, taskVars, sessions,
                   cliLog, before>>
    /\ loaded' = LoadedOnSetupFailure
    /\ UNCHANGED <<publisher, otherVars, loopVars>>

\* connect() returned and a command of async_setup raised UniFiCommandError:
\* get_port_count (line 73, run when no port count is known) or
\* get_port_statuses (line 83, run on startup_lightweight_read, after the
\* port count and the switch identity were stored).  Neither except clause
\* of lines 90-97 matches, so the error leaves async_setup as it is; f is
\* the error and the connection run_command leaves (kept on a timeout, set
\* to None on an I/O error, ssh_client.py lines 180-189).
SetupCommandFailures == {<<ErrCmdTimeout, "open">>, <<ErrCmdFailed, "none">>}

SetupCommandFails(f, count, info) ==
    /\ phase = "new"
    /\ f \in SetupCommandFailures
    /\ \/ /\ port_count <= 0                       \* get_port_count raised
          /\ count = port_count
          /\ info = switch_info
       \/ /\ IF port_count <= 0 THEN count \in 0..MaxPort
                                ELSE count = port_count
          /\ info \in SwitchInfos                   \* get_port_statuses raised
    /\ phase' = "failed"
    /\ conn' = f[2]
    /\ port_count' = count
    /\ switch_info' = info
    /\ lastRun' = [kind |-> "setup", port |-> None, parsed |-> "none",
                   raised |-> Some(f[1])]
    /\ loaded' = LoadedOnSetupFailure
    /\ UNCHANGED <<port_statuses, data, test_failed_ports, statusVars,
                   published, lock, now, taskVars, sessions, cliLog, before>>
    /\ UNCHANGED <<publisher, otherVars, loopVars>>

(***************************************************************************)
(* coordinator.py: async_request_cable_test (lines 127-208).               *)
(***************************************************************************)
\* tested_ports / failed_ports (lines 157-160, 195-198).
TargetPorts(p) == IF p # None THEN {p[1]} ELSE 1..port_count

\* Mutation: the lock is taken without looking at its state.
LockFreeUnchecked == TRUE

\* asyncio.Lock.acquire() returns at once iff the lock is free and nobody
\* waits for it; otherwise the caller queues behind the waiters.
LockFree == ~lock.locked /\ lock.waiters = <<>>

\* Mutation: a release wakes any of the waiters.
LockGrantableAnyWaiter(t) ==
    /\ ~lock.locked
    /\ \E i \in 1..Len(lock.waiters) : lock.waiters[i] = t

\* The lock may be handed to the oldest waiter once it is released.
LockGrantable(t) ==
    /\ ~lock.locked
    /\ lock.waiters # <<>>
    /\ Head(lock.waiters) = t

\* Mutation: line 135 is left out.
StatusAtStartStale == test_run_status

\* Line 135.
StatusAtStart == TEST_RUN_RUNNING

\* Line 139.
PortsCountAtStart(p) == IF p # None THEN 1 ELSE port_count

\* Mutation: the publish of line 140 is left out.
PublishedAtStartStale(p) == published

\* What observers are shown at line 140.
PublishedAtStart(p) ==
    StatusRecord(StatusAtStart, Some(now + 1), None, PortsCountAtStart(p), None)

\* Lines 134-140, run when the lock is held: the Running state is set and
\* published.  The clock advances with each run.
BeginRun(t, p) ==
    /\ now < MaxRuns
    /\ now' = now + 1
    /\ test_run_status' = StatusAtStart
    /\ test_started' = Some(now + 1)
    /\ test_completed' = None
    /\ test_error_message' = None
    /\ test_ports_count' = PortsCountAtStart(p)
    /\ published' = PublishedAtStart(p)
    /\ publisher' = "test"
    /\ UNCHANGED <<otherVars, loaded, loopVars>>
    /\ before' = [data |-> data, failed |-> test_failed_ports]
    /\ pc' = [pc EXCEPT ![t] = "connect"]
    /\ lastRun' = NoRun
    /\ UNCHANGED <<coordVars, conn, cmdq, nudges, results, sessions, cliLog>>

\* A caller (a button press, the service) calls async_request_cable_test(p)
\* and gets the lock at once.
RequestAcquire(t, p) ==
    /\ phase = "ready"
    /\ pc[t] = "idle"
    /\ LockFree
    /\ lock' = [lock EXCEPT !.locked = TRUE]
    /\ port' = [port EXCEPT ![t] = p]
    /\ BeginRun(t, p)

\* ... or finds the lock taken and waits for it.
RequestWait(t, p) ==
    /\ phase = "ready"
    /\ pc[t] = "idle"
    /\ ~LockFree
    /\ now + Len(lock.waiters) < MaxRuns     \* a run is left for this caller
    /\ lock' = [lock EXCEPT !.waiters = Append(@, t)]
    /\ port' = [port EXCEPT ![t] = p]
    /\ pc' = [pc EXCEPT ![t] = "waiting"]
    /\ UNCHANGED <<coordVars, statusVars, published, conn, now, cmdq, nudges,
                   results, sessions, cliLog, before, lastRun>>
    /\ UNCHANGED <<publisher, otherVars, loaded, loopVars>>

\* The oldest waiter is woken and takes the lock.
Granted(t) ==
    /\ pc[t] = "waiting"
    /\ LockGrantable(t)
    /\ lock' = [locked |-> TRUE, waiters |-> Tail(lock.waiters)]
    /\ UNCHANGED port
    /\ BeginRun(t, port[t])

\* The locals of a call that has ended.
EndCall(t) ==
    /\ pc' = [pc EXCEPT ![t] = "idle"]
    /\ cmdq' = [cmdq EXCEPT ![t] = <<>>]
    /\ nudges' = [nudges EXCEPT ![t] = 0]
    /\ results' = [results EXCEPT ![t] = EmptyDict]
    /\ lock' = [lock EXCEPT !.locked = FALSE]     \* leaving "async with"
    /\ port' = [port EXCEPT ![t] = None]
    /\ before' = NoBefore
    /\ loopEnd' = NoLoopEnd
    /\ loop' = NoLoop

\* History: the target of the run that ends, how it ended ("completed",
\* "empty" or "exception"), what run_cable_test had returned ("none" when it
\* had not returned, "empty" or "some" results) and what is raised to the
\* caller.
RunRecord(kind, t, exc) ==
    [kind |-> kind, port |-> port[t],
     parsed |-> IF pc[t] # "status" THEN "none"
                ELSE IF results[t] = EmptyDict THEN "empty" ELSE "some",
     raised |-> exc]

\* Mutation: a failure publishes an empty result map.
DataOnFailureCleared == EmptyDict

\* async_set_updated_data(dict(self.data or {})) of the failure paths
\* (lines 170, 191 and 206): the result map is published as it is.
DataOnFailure == data

\* str(err) of line 204.
FailureMessage(err) == err.msg

\* Mutation: line 199 is left out.
FailedPortsOnErrorUnmarked(t) == test_failed_ports

\* Line 199.
FailedPortsOnError(t) == test_failed_ports \cup TargetPorts(port[t])

\* Mutation: line 202 is left out.
StatusOnExceptionKept == test_run_status

\* Line 202.
StatusOnException == TEST_RUN_FAILED

\* Lines 193-208: an exception other than UpdateFailed reached the handler.
HandleException(t, err) ==
    /\ test_failed_ports' = FailedPortsOnError(t)
    /\ test_run_status' = StatusOnException
    /\ test_completed' = Some(now)
    /\ test_error_message' = Some(FailureMessage(err))
    /\ published' = StatusRecord(StatusOnException, test_started, Some(now),
                                 test_ports_count, Some(FailureMessage(err)))
    /\ publisher' = "test"
    /\ UNCHANGED <<otherVars, loaded>>
    /\ lastRun' = RunRecord("exception", t, Some(WrappedFailure(err)))
    /\ data' = DataOnFailure
    /\ EndCall(t)
    /\ UNCHANGED <<phase, port_count, switch_info, test_started,
                   test_ports_count, now>>


(***************************************************************************)
(* ssh_client.py: run_cable_test and run_cli_commands (lines 213-333).     *)
(***************************************************************************)
\* The command batch of run_cable_test(port=p, port_count=count)
\* (lines 316-322).
CommandBatch(p, count) ==
    IF p # None THEN <<CMD_CABLE_DIAG(p[1])>>
    ELSE [i \in 1..count |-> CMD_CABLE_DIAG(i)]

\* The batch the coordinator asks for (coordinator.py lines 144-147).
Commands(p) == CommandBatch(p, port_count)

\* Mutation: a line is written again (a retried write).
WriteRepeated(t, text) == Append(Append(cliLog, <<t, text>>), <<t, text>>)

\* process.stdin.write by caller t: the switch sees the write.
Write(t, text) == Append(cliLog, <<t, text>>)

\* Leaving "async with create_process": the caller's session is closed.
\* The log of writes is kept while any session is open.
CloseProcess(t) ==
    /\ sessions' = sessions \ {t}
    /\ cliLog' = IF sessions \ {t} = {} THEN <<>> ELSE cliLog

\* Mutation: is_closed() is not looked at.
NeedsConnectIfNone == conn = "none"

\* self._conn is None or self._conn.is_closed() (line 161).
NeedsConnect == conn # "open"

\* The connection a command starts on when _ensure_connected has returned:
\* the one of a connect() that succeeded (line 128), or the stored one.
ConnAfterEnsure == IF NeedsConnect THEN "open" ELSE conn

\* Mutation: lines 186 and 295 are left out.
ConnAfterIOErrorKept == conn

\* self._conn = None of the asyncssh.Error / OSError handlers (lines 186, 295).
ConnAfterIOError == "none"

\* _ensure_connected (lines 159-163) of run_cli_commands returns, connect()
\* having been awaited only when there was no open connection, and
\* create_process is called on the connection.
EnsureConnected(t) ==
    /\ pc[t] = "connect"
    /\ conn' = ConnAfterEnsure
    /\ pc' = [pc EXCEPT ![t] = "open"]
    /\ UNCHANGED <<coordVars, statusVars, published, lock, now, port, cmdq,
                   nudges, results, sessions, cliLog, before, lastRun>>
    /\ UNCHANGED <<publisher, otherVars, loaded, loopVars>>

\* connect() raises: the exception leaves run_cable_test.
ConnectFails(t, err) ==
    /\ pc[t] = "connect"
    /\ NeedsConnect
    /\ err \in ConnectErrors
    /\ HandleException(t, err)
    /\ UNCHANGED <<port_statuses, conn, sessions, cliLog>>

\* create_process returns and the enter sentinel is written (lines 234-240).
OpenAndEnter(t) ==
    /\ pc[t] = "open"
    /\ conn = "open"
    /\ sessions' = sessions \cup {t}
    /\ cliLog' = Write(t, CMD_CLI_ENTER)
    /\ cmdq' = [cmdq EXCEPT ![t] = Commands(port[t])]
    /\ pc' = [pc EXCEPT ![t] = IF Commands(port[t]) = <<>> THEN "exit1" ELSE "cmds"]
    /\ UNCHANGED <<coordVars, statusVars, published, lock, conn, now, port,
                   nudges, results, before, lastRun>>
    /\ UNCHANGED <<publisher, otherVars, loaded, loopVars>>

\* The next command of the batch is written (lines 243-245).
WriteCommand(t) ==
    /\ pc[t] = "cmds"
    /\ cliLog' = Write(t, Head(cmdq[t]))
    /\ cmdq' = [cmdq EXCEPT ![t] = Tail(@)]
    /\ pc' = [pc EXCEPT ![t] = IF Tail(cmdq[t]) = <<>> THEN "exit1" ELSE "cmds"]
    /\ UNCHANGED <<coordVars, statusVars, published, lock, conn, now, port,
                   nudges, results, sessions, before, lastRun>>
    /\ UNCHANGED <<publisher, otherVars, loaded, loopVars>>

\* The three exit sentinels (lines 247-257).
WriteExit(t) ==
    /\ pc[t] \in {"exit1", "exit2", "exit3"}
    /\ cliLog' = Write(t, CMD_CLI_EXIT)
    /\ pc' = [pc EXCEPT ![t] = CASE pc[t] = "exit1" -> "exit2"
                                 [] pc[t] = "exit2" -> "exit3"
                                 [] pc[t] = "exit3" -> "read"]
    /\ UNCHANGED <<coordVars, statusVars, published, lock, conn, now, port,
                   cmdq, nudges, results, sessions, before, lastRun>>
    /\ UNCHANGED <<publisher, otherVars, loaded, loopVars>>

\* The deadline of the loop (line 260), in per-read timeouts: the number of
\* read timeouts that fit before it.
Deadline == MaxNudges

\* The condition of the loop (line 262): a read is started only before the
\* deadline.
BeforeDeadline == loop.elapsed < Deadline

\* Mutation: the loop's clock is not looked at again after a timeout.
ElapsedAfterTimeoutFrozen == loop.elapsed

\* wait_for(..., timeout=3.0) of lines 264-267 gave up: one per-read
\* timeout has passed.
ElapsedAfterTimeout == loop.elapsed + 1

\* Mutation: the new chunk is put in front of what was collected.
CollectPrepended(buffer, chunk) == chunk \o buffer

\* collected_output += chunk (line 272).
Collect(buffer, chunk) == buffer \o chunk

\* A read of the loop returns a chunk (the next lines of the transcript)
\* after less than the per-read timeout, d of it: it is collected.
ReadChunk(t, chunk, d) ==
    /\ pc[t] = "read"
    /\ BeforeDeadline
    /\ chunk # <<>>
    /\ d \in {0, 1}
    /\ loop.buffer \o chunk \in CollectedOutputs
    /\ loop' = Loop(loop.elapsed + d, Collect(loop.buffer, chunk))
    /\ UNCHANGED <<coordVars, statusVars, published, lock, conn, now, taskVars,
                   sessions, cliLog, before, lastRun>>
    /\ UNCHANGED <<publisher, otherVars, loaded, loopEnd>>

\* A read of the loop times out: one more exit is written and the loop
\* goes on (lines 274-281).
ReadTimeout(t) ==
    /\ pc[t] = "read"
    /\ BeforeDeadline
    /\ nudges' = [nudges EXCEPT ![t] = @ + 1]
    /\ cliLog' = Write(t, CMD_CLI_EXIT)
    /\ loop' = Loop(ElapsedAfterTimeout, loop.buffer)
    /\ UNCHANGED <<coordVars, statusVars, published, lock, conn, now, pc, port,
                   cmdq, results, sessions, before, lastRun>>
    /\ UNCHANGED <<publisher, otherVars, loaded, loopEnd>>

\* Mutation: the connection is dropped when the read loop is left.
ConnAfterReturnDropped == "none"

\* Lines 283-285: the return of run_cli_commands assigns nothing to
\* self._conn.
ConnAfterReturn == conn

\* What run_cli_commands raises when its read loop was left by `how` with
\* `output` collected: nothing, "return collected_output" of line 285 is
\* reached on both exits and whatever was collected.
RaisedAfterLoop(how, output) == None

\* The read loop ends: a read before the deadline returned no chunk (end of
\* stream, lines 268-271), or the deadline has passed at the loop's check
\* (line 262).  collected_output is returned; run_cable_test parses it
\* (line 333) and the coordinator goes on to get_port_statuses (line 150).
ReadReturn(t, how) ==
    /\ pc[t] = "read"
    /\ how \in LoopExits
    /\ how = "eof" => BeforeDeadline
    /\ how = "deadline" => ~BeforeDeadline
    /\ RaisedAfterLoop(how, loop.buffer) = None
    /\ loopEnd' = LoopEnd(how, loop.buffer # NothingCollected,
                          RaisedAfterLoop(how, loop.buffer))
    /\ loop' = NoLoop
    /\ results' = [results EXCEPT ![t] =
                      _parse_cable_diag_output(loop.buffer, now)]
    /\ conn' = ConnAfterReturn
    /\ CloseProcess(t)
    /\ nudges' = [nudges EXCEPT ![t] = 0]
    /\ pc' = [pc EXCEPT ![t] = "status"]
    /\ UNCHANGED <<coordVars, statusVars, published, lock, now, port,
                   cmdq, before, lastRun>>
    /\ UNCHANGED <<publisher, otherVars, loaded>>

\* create_process, a write or a read raises asyncssh.Error or OSError
\* (lines 294-298): the connection is dropped, UniFiCommandError is raised.
CliFails(t) ==
    /\ pc[t] \in {"open", "cmds", "exit1", "exit2", "exit3", "read"}
    /\ conn' = ConnAfterIOError
    /\ CloseProcess(t)
    /\ HandleException(t, ErrCliFailed)
    /\ UNCHANGED port_statuses

\* create_process raises asyncio.TimeoutError (lines 287-293): nothing has
\* been collected, so UniFiCommandError is raised; self._conn is kept.
CliTimesOut(t) ==
    /\ pc[t] = "open"
    /\ HandleException(t, ErrCliTimeout)
    /\ UNCHANGED <<port_statuses, conn, sessions, cliLog>>

(***************************************************************************)
(* coordinator.py lines 150-192: the link-status fetch and the merge.      *)
(***************************************************************************)
\* merged = dict(self.data or {}); merged.update(results)
Merge(d, r) ==
    [x \in (DOMAIN d) \cup (DOMAIN r) |-> IF x \in DOMAIN r THEN r[x] ELSE d[x]]

\* Mutation: line 169 is left out.
FailedPortsOnEmptyUnmarked(t) == test_failed_ports \ TargetPorts(port[t])

\* Lines 161 and 169 on the empty path.
FailedPortsOnEmpty(t) ==
    (test_failed_ports \ TargetPorts(port[t])) \cup TargetPorts(port[t])

\* Mutation: a success clears every marker, not only the tested ports'.
FailedPortsOnSuccessAll(t) == {}

\* Line 161 on the success path.
FailedPortsOnSuccess(t) == test_failed_ports \ TargetPorts(port[t])

\* Mutation: line 176 is left out, the count stays the number targeted.
PortsCountOnSuccessTargeted(t) == test_ports_count

\* len(results) of line 176.
PortsCountOnSuccess(t) == Cardinality(DOMAIN results[t])

\* Line 190.
NoResultsMessage == <<"No results returned">>

\* get_port_statuses returned and the results are not empty (lines 152-185).
CompleteRun(t, table) ==
    /\ pc[t] = "status"
    /\ results[t] # EmptyDict
    /\ table \in StatusTables
    /\ conn' = ConnAfterEnsure
    /\ port_statuses' = table
    /\ test_failed_ports' = FailedPortsOnSuccess(t)
    /\ test_run_status' = TEST_RUN_COMPLETED
    /\ test_completed' = Some(now)
    /\ test_ports_count' = PortsCountOnSuccess(t)
    /\ data' = Merge(data, results[t])
    /\ published' = StatusRecord(TEST_RUN_COMPLETED, test_started, Some(now),
                                 PortsCountOnSuccess(t),
                                 test_error_message)
    /\ publisher' = "test"
    /\ UNCHANGED <<otherVars, loaded>>
    /\ lastRun' = RunRecord("completed", t, None)
    /\ EndCall(t)
    /\ UNCHANGED <<phase, port_count, switch_info, test_started,
                   test_error_message, now, sessions, cliLog>>

\* get_port_statuses returned and the results are empty (lines 163-171),
\* then the UpdateFailed handler (lines 187-192).
EmptyRun(t, table) ==
    /\ pc[t] = "status"
    /\ results[t] = EmptyDict
    /\ table \in StatusTables
    /\ conn' = ConnAfterEnsure
    /\ port_statuses' = table
    /\ test_failed_ports' = FailedPortsOnEmpty(t)
    /\ test_run_status' = TEST_RUN_FAILED
    /\ test_completed' = Some(now)
    /\ test_error_message' = Some(NoResultsMessage)
    /\ published' = StatusRecord(TEST_RUN_FAILED, test_started, Some(now),
                                 test_ports_count, Some(NoResultsMessage))
    /\ publisher' = "test"
    /\ UNCHANGED <<otherVars, loaded>>
    /\ lastRun' = RunRecord("empty", t, Some(NoResultsFailure))
    /\ data' = DataOnFailure
    /\ EndCall(t)
    /\ UNCHANGED <<phase, port_count, switch_info, test_started,
                   test_ports_count, now, sessions, cliLog>>

\* What run_command (lines 165-189) on "swctrl port show" may raise, and the
\* connection it leaves: a connect error of _ensure_connected, a timeout
\* (connection kept) or an I/O error (connection dropped).
RunCommandFailures ==
    {<<e, conn>> : e \in IF NeedsConnect THEN ConnectErrors ELSE {}}
    \cup {<<ErrCmdTimeout, ConnAfterEnsure>>, <<ErrCmdFailed, ConnAfterIOError>>}

\* get_port_statuses raises (line 150): the handler of lines 193-208 runs,
\* whatever results run_cable_test returned.
StatusFetchFails(t, f) ==
    /\ pc[t] = "status"
    /\ f \in RunCommandFailures
    /\ conn' = f[2]
    /\ HandleException(t, f[1])
    /\ UNCHANGED <<port_statuses, sessions, cliLog>>


(***************************************************************************)
(* coordinator.py: async_refresh_switch_status (lines 110-125).  It does   *)
(* not take the test lock.  Its two fetches change only switch_info,       *)
(* port_statuses and the connection, so the call is one step here.         *)
(***************************************************************************)
\* Mutation: the refresh publishes an empty result map.
DataOnRefreshCleared == EmptyDict

\* async_set_updated_data(dict(self.data or {})) of line 119.
DataOnRefresh == data

CurrentRecord ==
    StatusRecord(test_run_status, test_started, test_completed,
                 test_ports_count, test_error_message)

\* Both fetches return: the identity and the statuses are stored and the
\* unchanged result map is published again (lines 116-119).  get_switch_info
\* returns the defaults when its command raised UniFiCommandError
\* (ssh_client.py lines 200-204).
RefreshOk(info, table, id) ==
    /\ phase = "ready"
    /\ info \in SwitchInfos
    /\ id \in {"fetched", "defaulted"}
    /\ id = "defaulted" => info = DefaultSwitchInfo
    /\ table \in StatusTables
    /\ switch_info' = info
    /\ port_statuses' = table
    /\ conn' = "open"
    /\ data' = DataOnRefresh
    /\ published' = CurrentRecord
    /\ publisher' = "refresh"
    /\ refreshed' = Refreshed("ok", id, switch_info)
    /\ UNCHANGED <<peer, dpc, disconnects, parserVars, service, loaded, loopVars>>
    /\ UNCHANGED <<phase, port_count, test_failed_ports, statusVars, lock, now,
                   taskVars, sessions, cliLog, before, lastRun>>

\* What get_port_statuses may raise after get_switch_info, or get_switch_info
\* itself (id "raised"), and the connection left: after an I/O error of the
\* identity command the connection is gone and the reconnect may fail.
RefreshFailures(id) ==
    RunCommandFailures
    \cup (IF id = "defaulted" THEN {<<e, "none">> : e \in ConnectErrors} ELSE {})

\* get_switch_info raises a connect error (nothing is stored), or
\* get_port_statuses raises after switch_info was stored (lines 116-117 and
\* 120-125).
RefreshRaises(info, f, id) ==
    /\ phase = "ready"
    /\ info \in SwitchInfos
    /\ id \in {"fetched", "defaulted", "raised"}
    /\ id = "defaulted" => info = DefaultSwitchInfo
    /\ id = "raised" => info = switch_info /\ f[1] \in ConnectErrors
    /\ f \in RefreshFailures(id)
    /\ switch_info' = info
    /\ conn' = f[2]
    /\ refreshed' = Refreshed("raised", id, switch_info)
    /\ UNCHANGED <<phase, port_count, port_statuses, data, test_failed_ports,
                   statusVars, published, lock, now, taskVars, sessions, cliLog,
                   before, lastRun>>
    /\ UNCHANGED <<publisher, peer, dpc, disconnects, parserVars, service,
                   loaded, loopVars>>

\* The steps of a call that holds the lock.
RunStep(t) ==
    \/ EnsureConnected(t)
    \/ \E e \in ConnectErrors : ConnectFails(t, e)
    \/ OpenAndEnter(t)
    \/ WriteCommand(t)
    \/ WriteExit(t)
    \/ ReadTimeout(t)
    \/ \E c \in Chunks, d \in {0, 1} : ReadChunk(t, c, d)
    \/ \E how \in LoopExits : ReadReturn(t, how)
    \/ CliFails(t)
    \/ CliTimesOut(t)
    \/ \E tb \in StatusTables : CompleteRun(t, tb)
    \/ \E tb \in StatusTables : EmptyRun(t, tb)
    \/ \E f \in RunCommandFailures : StatusFetchFails(t, f)

\* Setup, then overlapping cable-test requests of the callers.
Next ==
    \/ SetupOk
    \/ \E e \in ConnectErrors : SetupFails(e)
    \/ \E f \in SetupCommandFailures, c \in 0..MaxPort, i \in SwitchInfos :
          SetupCommandFails(f, c, i)
    \/ \E t \in Tasks, p \in PortArgs : RequestAcquire(t, p)
    \/ \E t \in Tasks, p \in PortArgs : RequestWait(t, p)
    \/ \E t \in Tasks : Granted(t)
    \/ \E t \in Tasks : RunStep(t)

Spec == Init /\ [][Next]_vars

\* Setup, then all-ports requests of three overlapping callers, so that two
\* of them can wait for the lock at once.  Every step a caller can take is
\* taken eventually: the event loop runs every ready task, and every await
\* of a run returns or raises (the read loop is bounded by its deadline).
QueueCallers == {1, 2, 3}

InitQueue ==
    /\ phase = "new"
    /\ port_count \in 0..MaxPort
    /\ switch_info = DefaultSwitchInfo
    /\ port_statuses = NoStatuses
    /\ data = EmptyDict
    /\ test_failed_ports = {}
    /\ test_run_status = TEST_RUN_IDLE
    /\ test_started = None
    /\ test_completed = None
    /\ test_ports_count = 0
    /\ test_error_message = None
    /\ published = StatusRecord(TEST_RUN_IDLE, None, None, 0, None)
    /\ lock = [locked |-> FALSE, waiters |-> <<>>]
    /\ conn = "none"
    /\ now = 0
    /\ pc = [t \in QueueCallers |-> "idle"]
    /\ port = [t \in QueueCallers |-> None]
    /\ cmdq = [t \in QueueCallers |-> <<>>]
    /\ nudges = [t \in QueueCallers |-> 0]
    /\ results = [t \in QueueCallers |-> EmptyDict]
    /\ sessions = {}
    /\ cliLog = <<>>
    /\ before = NoBefore
    /\ lastRun = NoRun
    /\ publisher = "none"
    /\ peer = PeerInit
    /\ dpc = "idle"
    /\ disconnects = 0
    /\ loopEnd = NoLoopEnd
    /\ loop = NoLoop
    /\ service = NoService
    /\ refreshed = NoRefresh
    /\ loaded = {}
    /\ parseIn = NoText
    /\ parseOut = NoOutput

NextQueue ==
    \/ SetupOk
    \/ \E e \in ConnectErrors : SetupFails(e)
    \/ \E t \in QueueCallers : RequestAcquire(t, None)
    \/ \E t \in QueueCallers : RequestWait(t, None)
    \/ \E t \in QueueCallers : Granted(t)
    \/ \E t \in QueueCallers : RunStep(t)

SpecQueue ==
    /\ InitQueue
    /\ [][NextQueue]_vars
    /\ \A t \in QueueCallers : WF_vars(Granted(t)) /\ WF_vars(RunStep(t))

(***************************************************************************)
(* A second switch: its config entry has a client and a coordinator of    *)
(* its own (__init__.py lines 86-87), which run the code modelled above;   *)
(* a test run of it is kept to its start and its end.                      *)
(***************************************************************************)
\* Mutation: one test lock is shared by the coordinators of all switches.
PeerLockFreeShared == ~peer.locked /\ ~lock.locked

\* self._test_lock of coordinator.py line 54 is made per coordinator.
PeerLockFree == ~peer.locked

\* The second coordinator starts an all-ports run (lines 133-140).
PeerBegin ==
    /\ PeerLockFree
    /\ peer' = [peer EXCEPT !.locked = TRUE, !.test_run_status = TEST_RUN_RUNNING]
    /\ UNCHANGED <<coordVars, statusVars, published, lock, conn, now, taskVars,
                   sessions, cliLog, before, lastRun, publisher, dpc, disconnects,
                   parserVars, service, refreshed, loopVars, loaded>>

\* Its run ends Completed with results for all its ports (lines 150-185).
PeerComplete ==
    /\ peer.locked
    /\ peer' = [peer EXCEPT !.locked = FALSE,
                            !.test_run_status = TEST_RUN_COMPLETED,
                            !.test_failed_ports = {},
                            !.data = PortIds,
                            !.conn = "open"]
    /\ UNCHANGED <<coordVars, statusVars, published, lock, conn, now, taskVars,
                   sessions, cliLog, before, lastRun, publisher, dpc, disconnects,
                   parserVars, service, refreshed, loopVars, loaded>>

\* Its run ends Failed, leaving its connection as c (lines 187-208).
PeerFail(c) ==
    /\ peer.locked
    /\ c \in {"open", "none"}
    /\ peer' = [peer EXCEPT !.locked = FALSE,
                            !.test_run_status = TEST_RUN_FAILED,
                            !.test_failed_ports = PortIds,
                            !.conn = c]
    /\ UNCHANGED <<coordVars, statusVars, published, lock, conn, now, taskVars,
                   sessions, cliLog, before, lastRun, publisher, dpc, disconnects,
                   parserVars, service, refreshed, loopVars, loaded>>

PeerStep ==
    \/ PeerBegin
    \/ PeerComplete
    \/ \E c \in {"open", "none"} : PeerFail(c)

\* Setup of the first switch, then all-ports test runs of one caller on it
\* and test runs on the second switch, in any interleaving.
NextTwoSwitches ==
    \/ SetupOk
    \/ \E e \in ConnectErrors : SetupFails(e)
    \/ RequestAcquire(1, None)
    \/ RunStep(1)
    \/ PeerStep

SpecTwoSwitches == Init /\ [][NextTwoSwitches]_vars

\* Setup, then cable-test requests of one caller with status refreshes
\* running at any point of them.
RefreshStep ==
    \/ \E i \in SwitchInfos, tb \in StatusTables, id \in {"fetched", "defaulted"} :
          RefreshOk(i, tb, id)
    \/ \E i \in SwitchInfos, id \in {"fetched", "defaulted", "raised"} :
          \E f \in RefreshFailures(id) : RefreshRaises(i, f, id)

NextWithRefresh ==
    \/ SetupOk
    \/ \E e \in ConnectErrors : SetupFails(e)
    \/ \E p \in PortArgs : RequestAcquire(1, p)
    \/ RunStep(1)
    \/ RefreshStep

SpecWithRefresh == Init /\ [][NextWithRefresh]_vars


(***************************************************************************)
(* ssh_client.py: the connection is closed by the peer or the network, or  *)
(* by disconnect() (lines 151-157), which async_shutdown calls.            *)
(***************************************************************************)
\* The peer or the network closes the connection: is_closed() turns true.
ConnectionLost ==
    /\ conn = "open"
    /\ conn' = "closed"
    /\ UNCHANGED <<coordVars, statusVars, published, lock, now, taskVars,
                   sessions, cliLog, before, lastRun, publisher, otherVars, loopVars, loaded>>

\* Mutation: line 156 is left out.
ConnAfterDisconnectKept == conn

\* self._conn = None of line 156.
ConnAfterDisconnect == "none"

\* disconnect() finds no connection (line 153) and returns.
DisconnectNothing ==
    /\ dpc = "idle"
    /\ disconnects < MaxDisconnects
    /\ conn = "none"
    /\ disconnects' = disconnects + 1
    /\ UNCHANGED <<coordVars, statusVars, published, lock, conn, now, taskVars,
                   sessions, cliLog, before, lastRun, publisher, peer, dpc,
                   parserVars, service, refreshed, loopVars, loaded>>

\* disconnect() closes the connection and awaits wait_closed() (lines 153-155).
DisconnectClose ==
    /\ dpc = "idle"
    /\ disconnects < MaxDisconnects
    /\ conn # "none"
    /\ conn' = "closed"
    /\ dpc' = "closing"
    /\ UNCHANGED <<coordVars, statusVars, published, lock, now, taskVars,
                   sessions, cliLog, before, lastRun, publisher, peer, disconnects,
                   parserVars, service, refreshed, loopVars, loaded>>

\* wait_closed() returns: the connection is forgotten (line 156).
DisconnectDone ==
    /\ dpc = "closing"
    /\ conn' = ConnAfterDisconnect
    /\ dpc' = "idle"
    /\ disconnects' = disconnects + 1
    /\ UNCHANGED <<coordVars, statusVars, published, lock, now, taskVars,
                   sessions, cliLog, before, lastRun, publisher, peer, parserVars,
                   service, refreshed, loopVars, loaded>>

DisconnectStep ==
    \/ DisconnectNothing
    \/ DisconnectClose
    \/ DisconnectDone

\* Setup, then single-port test runs of one caller while the connection is
\* lost or disconnected at any point.
NextTransport ==
    \/ SetupOk
    \/ \E e \in ConnectErrors : SetupFails(e)
    \/ RequestAcquire(1, Some(1))
    \/ RunStep(1)
    \/ ConnectionLost
    \/ DisconnectStep

SpecTransport == Init /\ [][NextTransport]_vars

(***************************************************************************)
(* __init__.py: async_handle_cable_test (lines 142-170) called without a   *)
(* device: the loop of lines 155-158 over all coordinators.                *)
(***************************************************************************)
\* The service is called with port p.
ServiceCall(order, p) ==
    /\ phase = "ready"
    /\ service = NoService
    /\ order \in ServiceOrders
    /\ p \in PortArgs
    /\ service' = Service("running", order, 0, p)
    /\ UNCHANGED <<coordVars, statusVars, published, lock, conn, now, taskVars,
                   sessions, cliLog, before, lastRun, publisher, peer, dpc,
                   disconnects, parserVars, refreshed, loopVars, loaded>>

\* The coordinator the loop has reached.
ServiceTarget == service.order[service.done + 1]

\* Line 158 on this coordinator: its async_request_cable_test is entered.
ServiceCallsMain ==
    /\ service.state = "running"
    /\ ServiceTarget = 1
    /\ lastRun.kind = "none"
    /\ RequestAcquire(1, service.port)

\* Line 158 on the coordinator of the second switch.
ServiceCallsPeer ==
    /\ service.state = "running"
    /\ ServiceTarget = 2
    /\ peer.test_run_status = TEST_RUN_IDLE
    /\ PeerBegin

\* The awaited call has returned, or has raised UpdateFailed (every run
\* that ends Failed raises it: coordinator.py lines 171 and 208).
ServiceCallEnded ==
    IF ServiceTarget = 1
    THEN pc[1] = "idle" /\ lastRun.kind \in {"completed", "empty", "exception"}
    ELSE ~peer.locked /\ peer.test_run_status \in {TEST_RUN_COMPLETED, TEST_RUN_FAILED}

ServiceCallRaised ==
    IF ServiceTarget = 1 THEN lastRun.raised # None
    ELSE peer.test_run_status = TEST_RUN_FAILED

\* The await of line 158 ends: the loop goes on to the next coordinator or
\* returns (line 159); an exception of the call is not caught in the
\* handler and ends it.
ServiceResumes ==
    /\ service.state = "running"
    /\ ServiceCallEnded
    /\ service' =
          IF ServiceCallRaised THEN [service EXCEPT !.state = "raised"]
          ELSE IF service.done + 1 = Len(service.order)
               THEN [service EXCEPT !.state = "returned", !.done = @ + 1]
               ELSE [service EXCEPT !.done = @ + 1]
    /\ UNCHANGED <<coordVars, statusVars, published, lock, conn, now, taskVars,
                   sessions, cliLog, before, lastRun, publisher, peer, dpc,
                   disconnects, parserVars, refreshed, loopVars, loaded>>

\* Setup of both switches, then one service call over them; the connection
\* of this switch may be lost at any time.
NextService ==
    \/ SetupOk
    \/ \E o \in ServiceOrders, p \in PortArgs : ServiceCall(o, p)
    \/ ServiceCallsMain
    \/ ServiceCallsPeer
    \/ RunStep(1)
    \/ PeerComplete
    \/ \E c \in {"open", "none"} : PeerFail(c)
    \/ ServiceResumes
    \/ ConnectionLost

SpecService == Init /\ [][NextService]_vars

(***************************************************************************)
(* ssh_client.py: the table parsers and the status normalizers, applied to *)
(* any text (lines 343-406 and 616-741).                                    *)
(***************************************************************************)
\* Longest port table and identity output handed to a parser, in lines.
MaxLines == 3
\* Longest cable-diagnostic transcript handed to the parser, in lines.
MaxDiagLines == 4

\* The texts of at most n lines, each one of S.
Texts(S, n) == UNION {[1..k -> S] : k \in 0..n}

\* A text with the parser it is meant for, and a parser with its return value.
Text(kind, text) == [kind |-> kind, text |-> text]
Output(fn, value) == [fn |-> fn, value |-> value]

\* Status tokens a switch may print, and others.
StatusTokens ==
    {"Normal", "normal", "OK", "ok", " ok ", "Good", "good",
     "Open", "open", "Disconnected", "disconnect",
     "Short", "SHORT", "short",
     "Not Supported", "not supported", "N/A", "n/a", "NA", "na", "-", "",
     "Not Tested", "Unknown", "Fiber", "Test Failed", "45m"}

\* A line of "swctrl port show" as the expression of line 351 reads it:
\*   lead  - what stands before the first digit ("", "U" or other text)
\*   index - the number of the digits that follow, None when none does
\*   space - white space follows the digits
PortLine(lead, index, space) == [lead |-> lead, index |-> index, space |-> space]

\* "1  U/U", "U2  U/U", a lone "2", the table's header and "gi2  up".
PortLines ==
    {PortLine(l, Some(n), TRUE) : l \in {"", "U"}, n \in PortIds}
    \cup {PortLine("", Some(0), TRUE), PortLine("", Some(MaxPort), FALSE),
          PortLine("Port", None, TRUE), PortLine("gi", Some(MaxPort), TRUE)}

\* re.match(r"^U?(\d+)\s+", line) of line 351.
PortLineMatches(line) ==
    /\ line.lead \in {"", "U"}
    /\ line.index # None
    /\ line.space

\* Mutation: the port of the last matching line is kept.
maxLast(a, b) == b

\* Python's max on two numbers (line 354).
max(a, b) == IF a >= b THEN a ELSE b

\* The loop of lines 346-354 from max_port on.
RECURSIVE ParsePortCountFrom(_, _)
ParsePortCountFrom(max_port, lines) ==
    IF lines = <<>> THEN max_port
    ELSE ParsePortCountFrom(
           IF PortLineMatches(Head(lines))
           THEN max(max_port, Head(lines).index[1])
           ELSE max_port,
           Tail(lines))

_parse_port_count(output) == ParsePortCountFrom(0, output)

\* The SwitchInfo dataclass (lines 45-52) and its defaults.
SwitchInfo(hostname, model, version, mac) ==
    [hostname |-> hostname, model |-> model, version |-> version, mac |-> mac]

SwitchInfoDefaults == SwitchInfo("UniFi Switch", "USW", None, None)

\* A line of the "info" output as the loop of lines 371-404 reads it:
\*   keys  - the fields one of whose keywords the lower-cased line contains
\*   value - _value_after_delim(line): the stripped text after the first
\*           ":" (or "="), None when the line has neither
\*   mac   - the text the MAC expression finds in the line, None when none
InfoLine(keys, value, mac) == [keys |-> keys, value |-> value, mac |-> mac]

InfoLines ==
    {InfoLine({"hostname"}, Some("sw-a"), None),        \* "Hostname: sw-a"
     InfoLine({"hostname"}, Some("sw-b"), None),        \* "System Name = sw-b"
     InfoLine({"hostname"}, Some(""), None),            \* "Hostname:"
     InfoLine({"model"}, Some("USW-24"), None),         \* "Model: USW-24"
     InfoLine({"model"}, Some("US-8"), None),           \* "Board name: US-8"
     InfoLine({"model", "version"}, Some("rev2"), None),  \* "Model version: rev2"
     InfoLine({"version"}, Some("6.6.1"), None),        \* "Version: 6.6.1"
     InfoLine({"version"}, Some("7.0"), None),          \* "Firmware = 7.0"
     InfoLine({"version"}, None, None),                 \* "Firmware 7.0"
     InfoLine({"mac"}, Some("AA-BB-CC-00-11-22"), Some("AA-BB-CC-00-11-22")),
     InfoLine({"mac"}, Some("bb:cc:00:11:33"), Some("aa:bb:cc:00:11:33")),
     InfoLine({"mac"}, Some("unknown"), None),          \* "MAC: unknown"
     InfoLine({}, Some("3 days"), None)}                \* "Uptime: 3 days"

\* The branch of the if/elif chain of lines 379-388 a line takes.
InfoField(line) ==
    IF "hostname" \in line.keys THEN "hostname"
    ELSE IF "model" \in line.keys THEN "model"
    ELSE IF "version" \in line.keys THEN "version"
    ELSE IF "mac" \in line.keys THEN "mac"
    ELSE "none"

\* "if value:" on an Optional text.
Truthy(value) == value # None /\ value # Some("")

\* group(0).replace("-", ":").lower() on the MAC texts of the model.
NormalizeMac(text) ==
    IF text = "AA-BB-CC-00-11-22" THEN "aa:bb:cc:00:11:22" ELSE text

\* One iteration of the loop of _parse_switch_info (lines 371-404).
ParseInfoLine(info, line) ==
    LET field == InfoField(line) IN
    CASE field = "hostname" ->
           IF Truthy(line.value) THEN [info EXCEPT !.hostname = line.value[1]]
           ELSE info
      [] field = "model" ->
           IF Truthy(line.value) THEN [info EXCEPT !.model = line.value[1]]
           ELSE info
      [] field = "version" ->
           IF Truthy(line.value) THEN [info EXCEPT !.version = line.value]
           ELSE info
      [] field = "mac" ->
           IF line.mac # None
           THEN [info EXCEPT !.mac = Some(NormalizeMac(line.mac[1]))]
           ELSE IF Truthy(line.value) THEN [info EXCEPT !.mac = line.value]
           ELSE info
      [] OTHER -> info

RECURSIVE ParseInfoFrom(_, _)
ParseInfoFrom(info, lines) ==
    IF lines = <<>> THEN info
    ELSE ParseInfoFrom(ParseInfoLine(info, Head(lines)), Tail(lines))

_parse_switch_info(output) == ParseInfoFrom(SwitchInfoDefaults, output)

\* Lines of a cable-diagnostic transcript: the header of port 1 with its
\* pair A, the header of a fiber port 1, the bare header of port 2, the
\* lines of pairs B, C and D, a line "Media: Fiber" and the separator.
DiagLines ==
    {HeaderLine(1),
     DiagLine(FALSE, 1, TRUE, "", "", ""),
     DiagLine(FALSE, 2, FALSE, "", "", ""),
     DiagLine(FALSE, 0, FALSE, "B", "3.5", "Open"),
     DiagLine(FALSE, 0, FALSE, "C", "N/A", "Not Supported"),
     DiagLine(FALSE, 0, FALSE, "D", "N/A", "Short"),
     DiagLine(FALSE, 0, TRUE, "", "", ""),
     SeparatorLine}

\* The timeout run_cable_test gives run_cli_commands, in seconds (lines 319
\* and 324).
BatchTimeout(p, count) ==
    IF p # None THEN 30
    ELSE max(60, Len(CommandBatch(p, count)) * 2 + 10)

\* Largest port count run_cable_test is called with.
MaxBatch == 30

\* The calls of run_cable_test: a port or None, and a port count.
BatchTargets ==
    {<<q, n>> : q \in {None} \cup {Some(i) : i \in PortIds}, n \in 0..MaxBatch}

\* A row of "swctrl port show" as _parse_port_statuses reads it: lead, index
\* and space as in PortLine, and of the rest of the row
\*   link     - the token "U/U" or "U/D", "" when it has neither
\*   disabled - the lower-cased rest contains "disabled"
\*   rate     - the number of the rate token ("1000F", "0H"), None without
StatusRow(lead, index, space, link, disabled, rate) ==
    [lead |-> lead, index |-> index, space |-> space, link |-> link,
     disabled |-> disabled, rate |-> rate]

StatusRows ==
    {StatusRow("", Some(1), TRUE, "U/U", FALSE, Some(1000)),
     StatusRow("", Some(1), TRUE, "U/D", FALSE, Some(0)),
     StatusRow("U", Some(2), TRUE, "U/U", FALSE, Some(2500)),
     StatusRow("", Some(2), TRUE, "U/U", FALSE, Some(10000)),
     StatusRow("", Some(2), TRUE, "", TRUE, None),
     StatusRow("", Some(1), TRUE, "", FALSE, Some(100)),
     StatusRow("Port", None, TRUE, "", FALSE, None)}

\* The PortStatus dataclass (lines 56-64); port is the key it is stored
\* under, port_type is always None.  A display text is its number and unit.
PortStatus(connected, speed_mbps, speed_display) ==
    [connected |-> connected, speed_mbps |-> speed_mbps,
     speed_display |-> speed_display]

\* Lines 438-443.
ConnectedOf(row) ==
    IF row.link # "" THEN Some(row.link = "U/U")
    ELSE IF row.disabled THEN Some(FALSE)
    ELSE None

\* Mutation: a zero rate is kept as 0 Mbps.
SpeedOfRateLiteral(rate) == rate

\* Lines 447-452: speed_mbps of a rate token, None for none or for 0.
SpeedOfRate(rate) == IF rate = None \/ rate = Some(0) THEN None ELSE rate

\* Lines 453-456: speed_display.
DisplayOfRate(rate) ==
    IF rate = None \/ rate = Some(0) THEN None
    ELSE IF rate[1] >= 1000 /\ rate[1] % 1000 = 0
         THEN Some(<<rate[1] \div 1000, "Gbps">>)
         ELSE Some(<<rate[1], "Mbps">>)

\* The loop of _parse_port_statuses (lines 423-469) from statuses on.
RECURSIVE ParseStatusesFrom(_, _)
ParseStatusesFrom(statuses, rows) ==
    IF rows = <<>> THEN statuses
    ELSE LET row == Head(rows) IN
         ParseStatusesFrom(
           IF PortLineMatches(row)
           THEN DictSet(statuses, row.index[1],
                        PortStatus(ConnectedOf(row), SpeedOfRate(row.rate),
                                   DisplayOfRate(row.rate)))
           ELSE statuses,
           Tail(rows))

_parse_port_statuses(output) == ParseStatusesFrom(EmptyDict, output)

\* The two status normalizers by name.
Normalizers == {"_normalize_cable_status", "_normalize_status"}
Normalize(fn, status) ==
    IF fn = "_normalize_cable_status" THEN _normalize_cable_status(status)
    ELSE _normalize_status(status)

\* Everything but the parsers' text and return value.
programVars ==
    <<coordVars, statusVars, published, lock, conn, now, taskVars, sessions,
      cliLog, before, lastRun, publisher, peer, dpc, disconnects, service, refreshed,
      loopVars,
      loaded>>

\* A parser is about to be called on any text of its kind.
InitParsers ==
    /\ phase = "new"
    /\ port_count = 0
    /\ switch_info = DefaultSwitchInfo
    /\ port_statuses = NoStatuses
    /\ data = EmptyDict
    /\ test_failed_ports = {}
    /\ test_run_status = TEST_RUN_IDLE
    /\ test_started = None
    /\ test_completed = None
    /\ test_ports_count = 0
    /\ test_error_message = None
    /\ published = StatusRecord(TEST_RUN_IDLE, None, None, 0, None)
    /\ lock = [locked |-> FALSE, waiters |-> <<>>]
    /\ conn = "none"
    /\ now = 0
    /\ pc = [t \in Tasks |-> "idle"]
    /\ port = [t \in Tasks |-> None]
    /\ cmdq = [t \in Tasks |-> <<>>]
    /\ nudges = [t \in Tasks |-> 0]
    /\ results = [t \in Tasks |-> EmptyDict]
    /\ sessions = {}
    /\ cliLog = <<>>
    /\ before = NoBefore
    /\ lastRun = NoRun
    /\ publisher = "none"
    /\ peer = PeerInit
    /\ dpc = "idle"
    /\ disconnects = 0
    /\ loopEnd = NoLoopEnd
    /\ loop = NoLoop
    /\ service = NoService
    /\ refreshed = NoRefresh
    /\ loaded = {}
    /\ \/ parseIn \in {Text("status", x) : x \in StatusTokens}
       \/ parseIn \in {Text("ports", x) : x \in Texts(PortLines, MaxLines)}
       \/ parseIn \in {Text("info", x) : x \in Texts(InfoLines, MaxLines)}
       \/ parseIn \in {Text("diag", x) : x \in Texts(DiagLines, MaxDiagLines)}
       \/ parseIn \in {Text("statuses", x) : x \in Texts(StatusRows, MaxLines)}
       \/ parseIn \in {Text("target", x) : x \in BatchTargets}
    /\ parseOut = NoOutput

\* A normalizer is called on the status token.
ApplyNormalize(fn) ==
    /\ parseIn.kind = "status"
    /\ fn \in Normalizers
    /\ parseOut' = Output(fn, Normalize(fn, parseIn.text))
    /\ UNCHANGED <<parseIn, programVars>>

\* The normalizer is called again, on what it returned.
Renormalize ==
    /\ parseOut.fn \in Normalizers
    /\ parseIn' = Text("status", parseOut.value)
    /\ parseOut' = Output(parseOut.fn, Normalize(parseOut.fn, parseOut.value))
    /\ UNCHANGED programVars

ApplyParsePortCount ==
    /\ parseIn.kind = "ports"
    /\ parseOut' = Output("_parse_port_count", _parse_port_count(parseIn.text))
    /\ UNCHANGED <<parseIn, programVars>>

ApplyParseSwitchInfo ==
    /\ parseIn.kind = "info"
    /\ parseOut' = Output("_parse_switch_info", _parse_switch_info(parseIn.text))
    /\ UNCHANGED <<parseIn, programVars>>

ApplyParseCableDiag ==
    /\ parseIn.kind = "diag"
    /\ parseOut' = Output("_parse_cable_diag_output",
                          _parse_cable_diag_output(parseIn.text, now))
    /\ UNCHANGED <<parseIn, programVars>>

ApplyParsePortStatuses ==
    /\ parseIn.kind = "statuses"
    /\ parseOut' = Output("_parse_port_statuses",
                          _parse_port_statuses(parseIn.text))
    /\ UNCHANGED <<parseIn, programVars>>

\* run_cable_test builds its batch and timeout for the target (lines
\* 316-324).
ApplyCommandBatch ==
    /\ parseIn.kind = "target"
    /\ parseOut' = Output("run_cable_test",
                          [commands |-> CommandBatch(parseIn.text[1], parseIn.text[2]),
                           timeout |-> BatchTimeout(parseIn.text[1], parseIn.text[2])])
    /\ UNCHANGED <<parseIn, programVars>>

NextParsers ==
    \/ \E fn \in Normalizers : ApplyNormalize(fn)
    \/ Renormalize
    \/ ApplyParsePortCount
    \/ ApplyParseSwitchInfo
    \/ ApplyParseCableDiag
    \/ ApplyParsePortStatuses
    \/ ApplyCommandBatch

SpecParsers == InitParsers /\ [][NextParsers]_vars

(***************************************************************************)
(* Properties.                                                             *)
(***************************************************************************)
\* Caller t holds the test lock: it is between acquiring and releasing it.
InRun(t) == pc[t] \notin {"idle", "waiting"}

\* The step on which the run of caller t ends and the lock is released.
Ends(t) == InRun(t) /\ pc'[t] = "idle"

\* The steps of a run inside run_cable_test, from its invocation on.
DriverPcs == {"connect", "open", "cmds", "exit1", "exit2", "exit3", "read"}

\* Every exception the transport and the CLI session driver raise.
TransportErrors ==
    ConnectErrors \cup {ErrCliFailed, ErrCliTimeout, ErrCmdTimeout, ErrCmdFailed}

\* Port q has the same entry, or the same absence of one, in d and e.
SameEntry(d, e, q) ==
    /\ q \in DOMAIN d <=> q \in DOMAIN e
    /\ q \in DOMAIN d => d[q] = e[q]

\* C1: at most one call is between acquiring and releasing the test lock,
\* at most one CLI session is open, and all writes to the switch since a
\* session was opened are writes of one call: sessions never interleave.
C1_SingleFlight ==
    /\ Cardinality({t \in Tasks : InRun(t)}) <= 1
    /\ \A t \in Tasks : InRun(t) => lock.locked
    /\ Cardinality(sessions) <= 1
    /\ \A i, j \in 1..Len(cliLog) : cliLog[i][1] = cliLog[j][1]

\* C1 witness: a call has written the enter sentinel, its commands and two
\* exits while the other call waits for the lock.
C1_Witness ==
    \E t, u \in Tasks :
        /\ pc[t] = "exit3"
        /\ pc[u] = "waiting"
        /\ Len(cliLog) >= 4
        /\ cliLog[1] = <<t, CMD_CLI_ENTER>>

StatusTransitions ==
    {<<TEST_RUN_IDLE, TEST_RUN_RUNNING>>,
     <<TEST_RUN_RUNNING, TEST_RUN_COMPLETED>>,
     <<TEST_RUN_RUNNING, TEST_RUN_FAILED>>,
     <<TEST_RUN_COMPLETED, TEST_RUN_RUNNING>>,
     <<TEST_RUN_FAILED, TEST_RUN_RUNNING>>}

\* C2: the run status starts at Idle and every change of it is one of
\* Idle -> Running, Running -> Completed, Running -> Failed,
\* Completed -> Running, Failed -> Running.
C2_StatusTransitions ==
    /\ test_run_status = TEST_RUN_IDLE
    /\ [][test_run_status' # test_run_status
            => <<test_run_status, test_run_status'>> \in StatusTransitions]_vars

\* C2 witness: a second run has ended, so a terminal status was left for
\* Running and a terminal status was reached again.
C2_Witness ==
    /\ now = 2
    /\ test_run_status = TEST_RUN_FAILED
    /\ lastRun.kind = "empty"

\* C3: from the moment run_cable_test is invoked, the Running state (status
\* Running, the start time just read, no completion time, no error message,
\* count 1 for a port and port_count for all ports) is set and is what
\* observers were shown last.
C3_RunningPublishedFirst ==
    \A t \in Tasks :
        pc[t] \in DriverPcs =>
            /\ published = StatusRecord(TEST_RUN_RUNNING, Some(now), None,
                                        IF port[t] # None THEN 1 ELSE port_count,
                                        None)
            /\ CurrentRecord = published

\* C3 witness: the driver of a second, all-ports run is about to start.
C3_Witness ==
    \E t \in Tasks :
        /\ pc[t] = "connect"
        /\ port[t] = None
        /\ port_count = MaxPort
        /\ now = 2

\* C4: a run that ended by an exception of the transport or the driver is
\* Failed, every targeted port is marked failed, the error message is the
\* exception's text, which is not empty, and the caller gets the wrapped
\* failure.
C4_ExceptionFailsRun ==
    lastRun.kind = "exception" =>
        /\ test_run_status = TEST_RUN_FAILED
        /\ published.status = TEST_RUN_FAILED
        /\ TargetPorts(lastRun.port) \subseteq test_failed_ports
        /\ \E e \in TransportErrors :
              /\ e.msg # <<>>
              /\ test_error_message = Some(e.msg)
              /\ lastRun.raised = Some(UpdateFailed(<<"Cable test failed: ">> \o e.msg))

\* C4 witness: an all-ports run on a switch of MaxPort ports was failed by
\* the driver, and all its ports are marked.
C4_Witness ==
    /\ lastRun.kind = "exception"
    /\ lastRun.parsed = "none"
    /\ lastRun.port = None
    /\ port_count = MaxPort
    /\ test_failed_ports = PortIds
    /\ test_error_message = Some(ErrCliFailed.msg)

\* The message is the explanatory one and no transport exception's text.
ExplanatoryMessage ==
    /\ test_error_message = Some(NoResultsMessage)
    /\ \A e \in TransportErrors : test_error_message # Some(e.msg)

\* C5 as claimed: whenever the driver returned and nothing was parsed for a
\* non-empty target set, the run is Failed, the targeted ports are marked,
\* the message is the explanatory one and a failure is raised.
C5_Original ==
    (lastRun.parsed = "empty" /\ TargetPorts(lastRun.port) # {}) =>
        /\ test_run_status = TEST_RUN_FAILED
        /\ TargetPorts(lastRun.port) \subseteq test_failed_ports
        /\ ExplanatoryMessage
        /\ lastRun.raised # None

\* C5 amended: whenever the driver returned and nothing was parsed for a
\* non-empty target set, the run is Failed, never Completed, the targeted
\* ports are marked and a failure is raised; the message is the explanatory
\* one if the link-status fetch that follows returned, and the text of the
\* fetch's exception if it raised.
C5_EmptyResultFailsRun ==
    (lastRun.parsed = "empty" /\ TargetPorts(lastRun.port) # {}) =>
        /\ test_run_status = TEST_RUN_FAILED
        /\ lastRun.kind # "completed"
        /\ TargetPorts(lastRun.port) \subseteq test_failed_ports
        /\ lastRun.raised # None
        /\ lastRun.kind = "empty" =>
              ExplanatoryMessage /\ lastRun.raised = Some(NoResultsFailure)
        /\ lastRun.kind = "exception" =>
              \E e \in TransportErrors : test_error_message = Some(e.msg)

\* C5 witness: an all-ports run on a switch of MaxPort ports got an empty
\* result and its link-status fetch returned.
C5_Witness ==
    /\ lastRun.kind = "empty"
    /\ lastRun.port = None
    /\ port_count = MaxPort
    /\ test_failed_ports = PortIds
    /\ test_error_message = Some(NoResultsMessage)

\* C6: when a run for the single port p ends after an empty result, every
\* other port has the entry it had when the run started, p is marked failed
\* and the markers of the other ports are as they were.
C6_EmptySinglePortFrame ==
    [][\A t \in Tasks :
          (Ends(t) /\ lastRun'.parsed = "empty" /\ port[t] # None) =>
              /\ \A q \in PortIds \ TargetPorts(port[t]) :
                    /\ SameEntry(data', before.data, q)
                    /\ q \in test_failed_ports' <=> q \in before.failed
              /\ TargetPorts(port[t]) \subseteq test_failed_ports']_vars

\* C6 witness: a run for port 1 ended empty with port 1 newly marked, while
\* port 2 keeps its result of an earlier run and has no marker.
C6_Witness ==
    /\ lastRun.kind = "empty"
    /\ lastRun.port = Some(1)
    /\ 2 \in DOMAIN data
    /\ test_failed_ports = {1}

\* C7: when a run ends Failed, the result map is the one the run started
\* from.
C7_FailedRunKeepsMap ==
    [][\A t \in Tasks :
          (Ends(t) /\ test_run_status' = TEST_RUN_FAILED) =>
              data' = before.data]_vars

\* C7 witness: a run was failed by an exception after results had been
\* parsed, and the map still holds an earlier run's entry.
C7_Witness ==
    /\ lastRun.kind = "exception"
    /\ lastRun.parsed = "some"
    /\ test_run_status = TEST_RUN_FAILED
    /\ data # EmptyDict

\* C8: no step removes an entry of the result map, and an entry changes only
\* on the step that ends a run Completed whose parsed results hold the port.
C8_EntriesNeverLost ==
    [][\A q \in DOMAIN data :
          /\ q \in DOMAIN data'
          /\ data'[q] # data[q] =>
                /\ test_run_status' = TEST_RUN_COMPLETED
                /\ \E t \in Tasks : Ends(t) /\ q \in DOMAIN results[t]]_vars

\* C8 witness: the entry of port 1, written by the first run, is still there
\* after two later runs and a refresh that stored the switch's statuses.
C8_Witness ==
    /\ 1 \in DOMAIN data
    /\ data[1].last_tested = 1
    /\ now = 3
    /\ lastRun.kind = "exception"
    /\ port_statuses \in StatusTables

\* C9 as claimed: when a run for the single port p ends Completed, the map
\* holds the result of this run for p and every other port has the entry it
\* had when the run started.
C9_Original ==
    [][\A t \in Tasks :
          (Ends(t) /\ test_run_status' = TEST_RUN_COMPLETED /\ port[t] # None) =>
              /\ \A p \in TargetPorts(port[t]) :
                    /\ p \in DOMAIN data'
                    /\ data'[p].last_tested = now
              /\ \A q \in PortIds \ TargetPorts(port[t]) :
                    SameEntry(data', before.data, q)]_vars

\* C10: a run that ends Completed leaves none of its targeted ports marked;
\* no step changes the marker of a port that the run taking the step does
\* not target; and a marker is removed only by the end of a Completed run
\* that targets the port.
C10_MarkersSuperseded ==
    [][/\ \A t \in Tasks :
            (Ends(t) /\ test_run_status' = TEST_RUN_COMPLETED) =>
                TargetPorts(port[t]) \cap test_failed_ports' = {}
       /\ \A q \in PortIds :
            (q \in test_failed_ports') # (q \in test_failed_ports) =>
                \E t \in Tasks : Ends(t) /\ q \in TargetPorts(port[t])
       /\ \A q \in test_failed_ports \ test_failed_ports' :
            /\ test_run_status' = TEST_RUN_COMPLETED
            /\ \E t \in Tasks : Ends(t) /\ q \in TargetPorts(port[t])]_vars

\* C10 witness: after both ports were marked, a Completed run for port 1
\* removed the marker of port 1 and left the marker of port 2.
C10_Witness ==
    /\ lastRun.kind = "completed"
    /\ lastRun.port = Some(1)
    /\ test_failed_ports = {2}
    /\ now = 3

\* C11 as claimed: every run that ends has awaited the link-status fetch of
\* line 150, whether the diagnostic batch returned results, returned none
\* or raised.
C11_Original ==
    [][\A t \in Tasks : Ends(t) => pc[t] = "status"]_vars

\* The ports whose entry of the result map was written by the current run:
\* the clock ticks once a run, so they carry the run's time.
ObtainedPorts ==
    {q \in DOMAIN data : test_started # None /\ data[q].last_tested = test_started[1]}

\* C12: the run-status record is consistent in every state: an error
\* message only when Failed, no completion time while Running, start and
\* completion times when Completed or Failed, and on Completed a port count
\* equal to the number of per-port results the run obtained; observers were
\* shown such a record too.
C12_StatusRecordConsistent ==
    /\ test_error_message # None => test_run_status = TEST_RUN_FAILED
    /\ test_run_status = TEST_RUN_RUNNING => test_completed = None
    /\ test_run_status \in {TEST_RUN_COMPLETED, TEST_RUN_FAILED} =>
          test_started # None /\ test_completed # None
    /\ test_run_status = TEST_RUN_COMPLETED =>
          test_ports_count = Cardinality(ObtainedPorts)
    /\ published.error # None => published.status = TEST_RUN_FAILED
    /\ published.status = TEST_RUN_RUNNING => published.completed = None
    /\ published.status \in {TEST_RUN_COMPLETED, TEST_RUN_FAILED} =>
          published.started # None /\ published.completed # None

\* C12 witness: an all-ports run on a switch of MaxPort ports ended
\* Completed with the result of one port only, after a Failed run.
C12_Witness ==
    /\ test_run_status = TEST_RUN_COMPLETED
    /\ lastRun.port = None
    /\ port_count = MaxPort
    /\ test_ports_count = 1
    /\ now = 2
    /\ test_failed_ports = {}
    /\ test_error_message = None

\* Caller u asked for the lock before caller t and both still wait.
WaitsBefore(u, t) ==
    \E i, j \in 1..Len(lock.waiters) :
        i < j /\ lock.waiters[i] = u /\ lock.waiters[j] = t

\* C13: a caller that waits for the test lock gets it eventually, and no
\* caller gets it while a caller that asked before it still waits.
C13_LockFairFifo ==
    /\ \A t \in QueueCallers : (pc[t] = "waiting") ~> (pc[t] = "connect")
    /\ [][\A t, u \in QueueCallers :
            WaitsBefore(u, t) => ~(pc'[t] # "waiting" /\ pc'[u] = "waiting")]_vars

\* C13 witness: callers 2 and 3 waited behind caller 1; caller 3, who asked
\* second, runs the third test after caller 2, who asked first, has finished.
C13_Witness ==
    /\ pc[3] = "read"
    /\ pc[2] = "idle"
    /\ pc[1] = "idle"
    /\ lock.waiters = <<>>
    /\ test_started = Some(3)

\* C14 as claimed: once setup has completed, whoever assigned and published
\* the result map and the status record last did so holding the test lock;
\* the status refresh never does it.
C14_Original ==
    phase = "ready" => publisher \in {"setup", "test"}

\* The step is taken by a caller that holds the test lock: it begins its
\* run having just acquired the lock, or ends its run and releases it.
LockHolderStep ==
    \E t \in Tasks :
        \/ ~InRun(t) /\ pc'[t] = "connect"
        \/ Ends(t)

\* C14 amended: once setup has completed, the content of the result map, of
\* the run-status record (as stored and as shown to observers) and of the
\* failed-port set changes only in steps of the caller holding the test
\* lock; the status refresh, which does not take the lock, assigns and
\* publishes them again with the content they have.
C14_ChangedOnlyUnderLock ==
    [][(/\ phase = "ready"
        /\ \/ data' # data
           \/ test_failed_ports' # test_failed_ports
           \/ CurrentRecord' # CurrentRecord
           \/ published' # published)
       => LockHolderStep]_vars

\* C14 witness: a refresh has published while a test run that follows an
\* earlier Completed run waits for its transcript.
C14_Witness ==
    /\ publisher = "refresh"
    /\ pc[1] = "read"
    /\ data # EmptyDict
    /\ published.status = TEST_RUN_RUNNING
    /\ port_statuses \in StatusTables

\* The first switch's run status, failed-port set, result map and connection.
SwitchState == <<test_run_status, test_failed_ports, data, conn>>

\* C15: a run in progress on one switch does not keep the other switch from
\* starting a run, a step of the second switch's coordinator changes nothing
\* of the first switch's run status, failed ports, result map and
\* connection, and no step of the first changes those of the second.
C15_SwitchesIndependent ==
    /\ [](/\ ~peer.locked => ENABLED PeerBegin
          /\ (phase = "ready" /\ pc[1] = "idle" /\ now < MaxRuns) =>
                ENABLED RequestAcquire(1, None))
    /\ [][/\ peer' # peer => SwitchState' = SwitchState
          /\ vars' # vars /\ <<coordVars, statusVars, lock, conn, taskVars>>' #
                             <<coordVars, statusVars, lock, conn, taskVars>>
                => peer' = peer]_vars

\* C15 witness: both switches are Running, the first in the middle of its
\* CLI session, the second after an earlier Failed run of its own.
C15_Witness ==
    /\ test_run_status = TEST_RUN_RUNNING
    /\ pc[1] = "exit2"
    /\ peer.locked
    /\ peer.test_run_status = TEST_RUN_RUNNING
    /\ peer.test_failed_ports = PortIds
    /\ test_failed_ports = {}

\* The wrapped failures of the connect errors, as raised to a caller.
WrappedConnectErrors == {Some(WrappedFailure(e)) : e \in ConnectErrors}

\* C16: a command is started only on an open connection.  The step on which
\* run_cli_commands calls create_process, and the step on which run_command
\* returned the switch's output, have the connection open (a new one when
\* the stored one was missing or closed); and a call that ends by a connect
\* error found no open connection, wrote nothing to the switch, stored
\* nothing and left the stored connection as it was.
C16_CommandsOnOpenConnection ==
    [][\A t \in Tasks :
          /\ (pc[t] = "connect" /\ pc'[t] = "open") => conn' = "open"
          /\ (pc[t] = "status" /\ Ends(t)
                /\ lastRun'.kind \in {"completed", "empty"}) => conn' = "open"
          /\ (Ends(t) /\ lastRun'.raised \in WrappedConnectErrors) =>
                /\ pc[t] \in {"connect", "status"}
                /\ conn # "open"
                /\ conn' = conn
                /\ sessions' = sessions
                /\ cliLog' = cliLog
                /\ port_statuses' = port_statuses]_vars

\* C16 witness: after disconnect() had returned, a test run has its CLI
\* session open on a connection made anew.
C16_Witness ==
    /\ disconnects = 1
    /\ dpc = "idle"
    /\ conn = "open"
    /\ pc[1] = "cmds"
    /\ sessions = {1}

\* How often caller t has written the line `text` in its CLI session.
Written(t, text) ==
    Cardinality({i \in 1..Len(cliLog) : cliLog[i] = <<t, text>>})

\* What a caller is raised when a command met an I/O failure.
WrappedIOFailures ==
    {Some(WrappedFailure(ErrCliFailed)), Some(WrappedFailure(ErrCmdFailed))}

\* C17: a call that ends because the connection broke under its command has
\* written the enter sentinel and each command at most once, and leaves no
\* stored connection: it neither sends again nor reconnects.
C17_BrokenConnectionNoRetry ==
    [][\A t \in Tasks :
          (Ends(t) /\ lastRun'.raised \in WrappedIOFailures) =>
              /\ conn' = "none"
              /\ Written(t, CMD_CLI_ENTER) <= 1
              /\ \A q \in PortIds : Written(t, CMD_CABLE_DIAG(q)) <= 1]_vars

\* C17 witness: the CLI session of a run broke and no connection is stored.
C17_Witness ==
    /\ lastRun.kind = "exception"
    /\ lastRun.raised = Some(WrappedFailure(ErrCliFailed))
    /\ test_error_message = Some(ErrCliFailed.msg)
    /\ conn = "none"
    /\ sessions = {}

\* What a caller is raised when a command failed with UniFiCommandError.
WrappedCommandErrors ==
    {Some(WrappedFailure(e)) :
        e \in {ErrCliFailed, ErrCliTimeout, ErrCmdTimeout, ErrCmdFailed}}

\* C18 as claimed: a call that ends with a UniFiCommandError, by a timeout
\* or by an I/O failure, leaves no stored connection.
C18_Original ==
    [][\A t \in Tasks :
          (Ends(t) /\ lastRun'.raised \in WrappedCommandErrors) =>
              conn' = "none"]_vars

\* Everything but the count of disconnect() calls.
ExceptDisconnects ==
    <<coordVars, statusVars, published, lock, conn, now, taskVars, sessions,
      cliLog, before, lastRun, publisher, peer, dpc, parserVars, service, refreshed,
      loopVars,
      loaded>>

\* C19: when disconnect() returns the client holds no connection, and a
\* call that finds none (the second of two calls, too) changes nothing.
C19_DisconnectIdempotent ==
    [][disconnects' # disconnects =>
          /\ conn' = "none"
          /\ (conn = "none" /\ dpc = "idle") => UNCHANGED ExceptDisconnects]_vars

\* C19 witness: disconnect() has returned twice after a Completed run, the
\* second time with nothing to close.
C19_Witness ==
    /\ disconnects = 2
    /\ dpc = "idle"
    /\ conn = "none"
    /\ lastRun.kind = "completed"
    /\ pc[1] = "idle"

\* C20 as claimed: a setup that was failed by an authentication error does
\* not end like one failed by a transient connection error, with the
\* ConfigEntryNotReady on which the host schedules the setup again.
C20_Original ==
    (lastRun.kind = "setup" /\ lastRun.raised = Some(SetupFailure(ErrAuth))) =>
        /\ lastRun.raised[1].type # "ConfigEntryNotReady"
        /\ lastRun.raised[1].type # SetupFailure(ErrConnect).type

\* C21 as claimed: when the read loop was left at its deadline, the call
\* returned without error if some output had been collected, and raised the
\* UniFiCommandError of the timeout handler if nothing had been.
C21_Original ==
    loopEnd.how = "deadline" =>
        IF loopEnd.collected THEN loopEnd.raised = None
        ELSE loopEnd.raised = Some(ErrCliTimeout)

\* C22: leaving the read loop at its deadline neither closes nor forgets the
\* connection: the step keeps the stored connection, which is open, and the
\* link-status command that follows starts on it without connecting anew.
C22_DeadlineKeepsConnection ==
    [][\A t \in Tasks :
          /\ (pc[t] = "read" /\ pc'[t] = "status" /\ loopEnd'.how = "deadline") =>
                /\ conn = "open"
                /\ conn' = conn
          /\ (pc[t] = "status" /\ loopEnd.how = "deadline" /\ Ends(t)) =>
                ~NeedsConnect]_vars

\* C22 witness: a run whose read loop ended at the deadline with output is
\* about to fetch the link statuses on the open connection.
C22_Witness ==
    /\ loopEnd = LoopEnd("deadline", TRUE, None)
    /\ pc[1] = "status"
    /\ results[1] # EmptyDict
    /\ conn = "open"

\* The closed vocabulary of pair statuses the normalizers may return.
CanonicalStatuses ==
    {STATUS_OK, STATUS_OPEN, STATUS_SHORT, STATUS_NOT_TESTED, STATUS_UNKNOWN}

\* C23 as claimed: a normalizer returns one of the five canonical statuses
\* for every token, and called again on what it returned it returns the same.
C23_Original ==
    [][parseOut'.fn \in Normalizers =>
          /\ parseOut'.value \in CanonicalStatuses
          /\ (parseOut.fn = parseOut'.fn /\ parseIn'.text = parseOut.value) =>
                parseOut'.value = parseOut.value]_vars

\* The line of the last header of port p in a transcript, 0 when p has none.
LastHeader(text, p) ==
    LET hs == {i \in 1..Len(text) : ~text[i].skip /\ text[i].gi = p}
    IN IF hs = {} THEN 0 ELSE CHOOSE i \in hs : \A j \in hs : j <= i

\* The ports a transcript has a header line of.
HeaderPorts(text) == {text[i].gi : i \in {j \in 1..Len(text) : ~text[j].skip}} \ {0}

\* The lines of the block of port p: its last header and the lines after it
\* up to the next header, separators left out.
BlockLines(text, p) ==
    {j \in LastHeader(text, p)..Len(text) :
        /\ ~text[j].skip
        /\ \A k \in (LastHeader(text, p) + 1)..j : text[k].skip \/ text[k].gi = 0}

AllPairs(status, length) == [i \in 1..4 |-> PairResult(status, length)]

\* C24 as claimed: a port whose block has a fiber marker on any of its
\* lines is parsed to a result with all four pairs Fiber and without length.
C24_Original ==
    parseOut.fn = "_parse_cable_diag_output" =>
        \A p \in HeaderPorts(parseIn.text) :
            (\E j \in BlockLines(parseIn.text, p) : parseIn.text[j].fiber) =>
                /\ p \in DOMAIN parseOut.value
                /\ parseOut.value[p].pairs = AllPairs(STATUS_FIBER, None)

\* The pairs of port p a transcript has a pair line of in p's block (the
\* header line of a fiber port is not read for pairs).
PopulatedPairs(text, p) ==
    {PairIndex(text[j].pair) :
        j \in {k \in BlockLines(text, p) :
                 /\ text[k].pair # ""
                 /\ ~(text[k].gi # 0 /\ text[k].fiber)}} \ {0}

\* C25 as claimed: a parsed result has all four pairs set from pair lines,
\* or none and then every pair at the default (or, for a fiber port, every
\* pair Fiber); never only some pairs.
C25_Original ==
    parseOut.fn = "_parse_cable_diag_output" =>
        \A p \in DOMAIN parseOut.value :
            \/ PopulatedPairs(parseIn.text, p) = 1..4
            \/ /\ PopulatedPairs(parseIn.text, p) = {}
               /\ parseOut.value[p].pairs \in {AllPairs(STATUS_NOT_TESTED, None),
                                                AllPairs(STATUS_FIBER, None)}

\* The indexes of the lines of a port table that start with an index,
\* after the uplink marker or nothing, and have white space after it.
IndexesSeen(text) ==
    {text[i].index[1] :
        i \in {j \in 1..Len(text) : /\ text[j].lead \in {"", "U"}
                                     /\ text[j].index # None
                                     /\ text[j].space}}

\* C26: the port count parsed from a table is the largest index its index
\* lines have, and 0 when the table is empty or has no such line.
C26_PortCountIsMaximum ==
    parseOut.fn = "_parse_port_count" =>
        IF IndexesSeen(parseIn.text) = {} THEN parseOut.value = 0
        ELSE /\ parseOut.value \in IndexesSeen(parseIn.text)
             /\ \A n \in IndexesSeen(parseIn.text) : n <= parseOut.value

\* C26 witness: the largest index stands on the first line of a table, a
\* smaller one and a line without index follow; the largest is returned.
C26_Witness ==
    /\ parseIn = Text("ports", <<PortLine("U", Some(MaxPort), TRUE),
                                  PortLine("", Some(1), TRUE),
                                  PortLine("Port", None, TRUE)>>)
    /\ parseOut = Output("_parse_port_count", MaxPort)

\* The lines of an identity output that give field f a value, and the value
\* a line gives it.
FieldLines(text, f) ==
    {i \in 1..Len(text) :
        /\ InfoField(text[i]) = f
        /\ Truthy(text[i].value) \/ (f = "mac" /\ text[i].mac # None)}

FieldValue(line, f) == ParseInfoLine(SwitchInfoDefaults, line)[f]

\* C27 as claimed: each field of the parsed identity has the value of the
\* first line that gives it one.
C27_Original ==
    parseOut.fn = "_parse_switch_info" =>
        \A f \in {"hostname", "model", "version", "mac"} :
            FieldLines(parseIn.text, f) # {} =>
                LET first == CHOOSE i \in FieldLines(parseIn.text, f) :
                                 \A j \in FieldLines(parseIn.text, f) : i <= j
                IN parseOut.value[f] = FieldValue(parseIn.text[first], f)

\* The mapping of status tokens as specified, on the lower-cased token.
SharedMapping(token) ==
    LET s == Lower(token) IN
    CASE s \in {"ok", "normal", "good"} -> STATUS_OK
      [] s \in {"open", "disconnect", "disconnected"} -> STATUS_OPEN
      [] s \in {"short"} -> STATUS_SHORT
      [] s \in {"n/a", "na", "-", "", "not supported"} -> STATUS_NOT_TESTED
      [] OTHER -> STATUS_UNKNOWN

\* C28 as claimed: either normalizer returns for every token the status of
\* the one shared mapping.
C28_Original ==
    parseOut.fn \in Normalizers => parseOut.value = SharedMapping(parseIn.text)

\* What async_setup raises to async_setup_entry on a failure.
SetupErrors ==
    {Some(SetupFailure(e)) : e \in ConnectErrors}
    \cup {Some(f[1]) : f \in SetupCommandFailures}

\* C29: when setup failed on an authentication, connection or command
\* error, the error was raised to the caller of async_setup_entry and the
\* entry was left unloaded: no coordinator stored, no platform and no
\* service set up, nothing published, and no test run is ever started.
C29_FailedSetupLoadsNothing ==
    phase = "failed" =>
        /\ lastRun.kind = "setup"
        /\ lastRun.raised \in SetupErrors
        /\ loaded = {}
        /\ publisher = "none"
        /\ published = StatusRecord(TEST_RUN_IDLE, None, None, 0, None)
        /\ data = EmptyDict
        /\ test_run_status = TEST_RUN_IDLE
        /\ \A t \in Tasks : pc[t] = "idle"

\* C29 witness: setup failed on a command that lost the connection after
\* the port count had been discovered.
C29_Witness ==
    /\ phase = "failed"
    /\ lastRun.raised = Some(ErrCmdFailed)
    /\ conn = "none"
    /\ port_count = MaxPort
    /\ loaded = {}

\* The lines caller t has written to its CLI session, in order.
WrittenBy(t) ==
    LET mine == SelectSeq(cliLog, LAMBDA w : w[1] = t)
    IN [i \in 1..Len(mine) |-> mine[i][2]]

\* The enter sentinel, the batch in its order, the exit sentinel three times.
SentinelSequence(batch) ==
    <<CMD_CLI_ENTER>> \o batch \o <<CMD_CLI_EXIT, CMD_CLI_EXIT, CMD_CLI_EXIT>>

C39_ReadLoopTerminates ==
    /\ [](\A t \in QueueCallers : pc[t] = "read" =>
             /\ nudges[t] <= loop.elapsed
             /\ loop.elapsed <= Deadline)
    /\ [][\A t \in QueueCallers : pc[t] = "read" =>
             /\ (pc'[t] = "read" /\ loop' # loop) => loop.elapsed < Deadline
             /\ (pc'[t] = "status" /\ loopEnd'.how = "eof") => loop.elapsed < Deadline
             /\ (pc'[t] = "status" /\ loopEnd'.how = "deadline") =>
                   loop.elapsed = Deadline]_vars
    /\ \A t \in QueueCallers : (pc[t] = "read") ~> (pc[t] # "read")

\* C39 witness: every read of a loop has timed out and the deadline is
\* reached: the next check of the loop's condition leaves it.
C39_Witness ==
    /\ pc[2] = "read"
    /\ loop = Loop(Deadline, <<>>)
    /\ nudges[2] = Deadline

LastRowOf(text, q) ==
    LET rs == {i \in 1..Len(text) : /\ text[i].lead \in {"", "U"}
                                     /\ text[i].index = Some(q)
                                     /\ text[i].space}
    IN IF rs = {} THEN 0 ELSE CHOOSE i \in rs : \A j \in rs : j <= i

\* The speed and its display of a rate token as specified.
SpeedAsSpecified(status, rate) ==
    IF rate = None \/ rate = Some(0)
    THEN status.speed_mbps = None /\ status.speed_display = None
    ELSE /\ status.speed_mbps = rate
         /\ status.speed_display =
              IF rate[1] % 1000 = 0 THEN Some(<<rate[1] \div 1000, "Gbps">>)
              ELSE Some(<<rate[1], "Mbps">>)

\* C33 as claimed: a row with a port index gives connected true for U/U,
\* false for U/D and unknown when it has neither token, and the speed and
\* display of its rate token, none for a zero rate.
C33_Original ==
    parseOut.fn = "_parse_port_statuses" =>
        \A q \in DOMAIN parseOut.value :
            LET row == parseIn.text[LastRowOf(parseIn.text, q)]
            IN /\ parseOut.value[q].connected =
                    CASE row.link = "U/U" -> Some(TRUE)
                      [] row.link = "U/D" -> Some(FALSE)
                      [] OTHER -> None
               /\ SpeedAsSpecified(parseOut.value[q], row.rate)

\* C33: the ports of the parsed table are those of its rows with an index;
\* such a row gives connected true for U/U, false for U/D, and without
\* either token false when it says "disabled" and unknown otherwise; and
\* the speed and display of its rate token, none for a zero rate.
C33_PortStatusOfRow ==
    parseOut.fn = "_parse_port_statuses" =>
        /\ DOMAIN parseOut.value =
              {q \in 0..MaxPort : LastRowOf(parseIn.text, q) # 0}
        /\ \A q \in DOMAIN parseOut.value :
              LET row == parseIn.text[LastRowOf(parseIn.text, q)]
              IN /\ parseOut.value[q].connected =
                      CASE row.link = "U/U" -> Some(TRUE)
                        [] row.link = "U/D" -> Some(FALSE)
                        [] row.disabled -> Some(FALSE)
                        [] OTHER -> None
                 /\ SpeedAsSpecified(parseOut.value[q], row.rate)

\* C33 witness: port 1 is down with a zero rate, port 2 is disabled.
C33_Witness ==
    /\ parseOut.fn = "_parse_port_statuses"
    /\ DOMAIN parseOut.value = {1, 2}
    /\ parseOut.value[1] = PortStatus(Some(FALSE), None, None)
    /\ parseOut.value[2] = PortStatus(Some(FALSE), None, None)
    /\ Len(parseIn.text) = 2

PairLetters == <<"A", "B", "C", "D">>

\* The last line of the block of port p that is a pair line of pair i, 0
\* when the block has none.
LastPairLine(text, p, i) ==
    LET ls == {k \in BlockLines(text, p) : text[k].pair = PairLetters[i]}
    IN IF ls = {} THEN 0 ELSE CHOOSE k \in ls : \A j \in ls : j <= k

C36_FetchFailureMergesNothing ==
    [][\A t \in Tasks :
          (pc[t] = "status" /\ results[t] # EmptyDict
             /\ lastRun'.kind = "exception") =>
              /\ test_run_status' = TEST_RUN_FAILED
              /\ published'.status = TEST_RUN_FAILED
              /\ TargetPorts(port[t]) \subseteq test_failed_ports'
              /\ data' = before.data
              /\ data' = data
              /\ ~lock'.locked]_vars

\* C36 witness: after a run that tested port 1, a run of all ports got
\* results and lost them to a failed status fetch.
C36_Witness ==
    /\ lastRun.kind = "exception"
    /\ lastRun.parsed = "some"
    /\ lastRun.port = None
    /\ port_count = MaxPort
    /\ DOMAIN data = {1}
    /\ test_failed_ports = PortIds
    /\ test_run_status = TEST_RUN_FAILED

\* C37 as claimed: while a test holds the lock and its CLI session is open,
\* no status refresh has run since the test began: the last publication is
\* the test's own, and the identity and the connection are not touched by a
\* refresh.
C37_Original ==
    /\ [](lock.locked /\ sessions # {} => publisher # "refresh")
    /\ [][lock.locked /\ sessions # {} => refreshed' = refreshed]_vars

\* C38 as claimed: a refresh that raised left the stored identity as it was
\* when the call began, and a refresh whose identity command failed did not
\* replace a known identity by the defaults.
C38_Original ==
    /\ refreshed.outcome = "raised" => switch_info = refreshed.info
    /\ (refreshed.identity = "defaulted" /\ refreshed.info # DefaultSwitchInfo) =>
          switch_info # DefaultSwitchInfo

\* C40 as claimed: the switches are tested one at a time, and when the
\* service call has ended, by returning or by raising, every configured
\* switch has been tested.
C40_Original ==
    /\ ~(lock.locked /\ peer.locked)
    /\ service.state \in {"returned", "raised"} =>
          /\ lastRun.kind \in {"completed", "empty", "exception"}
          /\ peer.test_run_status \in {TEST_RUN_COMPLETED, TEST_RUN_FAILED}
====
